---- MODULE Spec2Model ----
(***************************************************************************)
(* Contact agenda REST API (Django REST framework): the Contacto aggregate *)
(* (contact row plus its telefonos / emails / direcciones), the            *)
(* ownership-scoped views of Contactos/views.py and the nested             *)
(* create/update of Contactos/serializers.py.                              *)
(*                                                                         *)
(* The database runs in Django's default autocommit mode: every ORM call   *)
(* (create, save, delete) is one atomic statement, and a handler is a      *)
(* sequence of such statements.  A handler thread is a worker that holds   *)
(* the statements it still has to run; requests of several workers         *)
(* interleave statement by statement.                                      *)
(*                                                                         *)
(* Text values are sequences of one-character strings.                     *)
(***************************************************************************)
EXTENDS Integers, Sequences, FiniteSets, TLC

\* ------------------------------------------------------------------ bounds
\* number of contact rows the auto-increment key may hand out
MaxContactos == 2
\* number of requests accepted in a run with concurrent handlers
MaxRequests == 2
\* number of requests accepted in a run that handles one request at a time
MaxSeqRequests == 3
\* longest run of digits in a telefono number sent by a request
MaxDigitos == 17
\* number of rows the CustomUser table ever holds
MaxUsuarios == 3

\* ------------------------------------------------------------- text values
Empty == <<>>
Ana   == <<"A", "n", "a">>
Luis  == <<"L", "u", "i", "s">>
Ruiz  == <<"R", "u", "i", "z">>

Num1     == <<"5", "5", "5", "0", "0", "0", "0", "0", "1">>
Num2     == <<"+", "5", "5", "5", "0", "0", "0", "0", "0", "2">>
NumCorto == <<"1", "2", "3", "4", "5">>

Mail1   == <<"a", "@", "x", ".", "m", "x">>
Mail2   == <<"b", "@", "x", ".", "m", "x">>

Digits == {"0", "1", "2", "3", "4", "5", "6", "7", "8", "9"}

\* ------------------------------------------------------- identities, catalogs
Users   == {"u1", "u2"}
Workers == {"w1", "w2"}

WorkerOrder == [w \in Workers |-> IF w = "w1" THEN 1 ELSE 2]

\* rows of the lookup catalogs (primary keys)
TiposTelefono  == {1}
TiposEmail     == {1}
TiposDireccion == {1}

Kinds == {"telefonos", "emails", "direcciones"}

\* primary keys of the contact table
ContactoIds == 1..MaxContactos

\* primary keys a request names in its URL: the keys of the seeded rows,
\* which are also the first keys of an empty table
PkInputs == {1, 2}

\* ------------------------------------------------------------------- state
VARIABLES
  contactos,        \* table Contacto: id -> row, for the ids that exist
  telefonos,        \* table TelefonoContacto: contact id -> rows in pk order
  emails,           \* table EmailContacto
  direcciones,      \* table DireccionContacto
  tipos_relacion,   \* table TipoRelacion: id -> row
  next_id,          \* next value of the Contacto auto-increment key
  req,              \* per worker: the request it is handling
  started,          \* number of requests accepted so far
  historial,        \* the saves of toggle-favorito, in the order they ran
  custom_users,     \* table CustomUser: id -> row, for the ids that exist
  next_user_id,     \* next value of the CustomUser auto-increment key
  ureq              \* per worker: the request of Usuarios/urls.py it is handling

vars == <<contactos, telefonos, emails, direcciones, tipos_relacion, next_id, req,
          started, historial, custom_users, next_user_id, ureq>>

hijos == [telefonos |-> telefonos, emails |-> emails, direcciones |-> direcciones]

\* ------------------------------------------------------ optional body fields
\* a field of a request body is absent (<<>>) or present with a value (<<v>>)
Omitted  == <<>>
Given(v) == <<v>>
Has(body, f) == Len(body[f]) > 0
Val(body, f) == body[f][1]

\* pop(f, []) / get(f, default)
Pop(body, f, default) == IF Has(body, f) THEN Val(body, f) ELSE default

\* ------------------------------------------------------------- text
\* ", ".join(partes) / " ".join(nombres)
RECURSIVE Join(_, _)
Join(partes, sep) ==
  IF Len(partes) = 0 THEN Empty
  ELSE IF Len(partes) = 1 THEN partes[1]
  ELSE partes[1] \o sep \o Join(Tail(partes), sep)

\* mutation: every part is kept, empty or not
NoVaciosOff(partes) == partes

\* [p for p in partes if p]: the empty string is false
NoVacios(partes) == SelectSeq(partes, LAMBDA n : n # Empty)

\* str.strip(): the white space of both ends is removed
RECURSIVE LStrip(_)
LStrip(s) == IF Len(s) > 0 /\ Head(s) = " " THEN LStrip(Tail(s)) ELSE s

RECURSIVE RStrip(_)
RStrip(s) ==
  IF Len(s) > 0 /\ s[Len(s)] = " " THEN RStrip(SubSeq(s, 1, Len(s) - 1)) ELSE s

Strip(s) == RStrip(LStrip(s))

\* ------------------------------------------------------------ field checks
AllDigits(s) == \A i \in 1..Len(s) : s[i] \in Digits

\* RegexValidator r'^\+?1?\d{9,15}$'
RegexRest(s) ==
  \/ AllDigits(s) /\ Len(s) >= 9 /\ Len(s) <= 15
  \/ Len(s) >= 1 /\ s[1] = "1" /\ AllDigits(Tail(s)) /\ Len(s) - 1 >= 9 /\ Len(s) - 1 <= 15

ValidNumero(s) ==
  /\ Len(s) <= 20
  /\ \/ RegexRest(s)
     \/ Len(s) >= 1 /\ s[1] = "+" /\ RegexRest(Tail(s))

\* EmailField: one "@" with text on both sides
ValidEmail(s) ==
  \E i \in 2..(Len(s) - 1) :
     /\ s[i] = "@"
     /\ \A j \in 1..Len(s) : s[j] = "@" => j = i

\* -------------------------------------------------------------------- rows
\* Contacto row; the text fields that no request of the model sets keep
\* their model defaults
NuevoContacto(usuario, data) ==
  [usuario        |-> usuario,
   nombre         |-> Pop(data, "nombre", Empty),
   apellido_pat   |-> Pop(data, "apellido_pat", Empty),
   apellido_mat   |-> Pop(data, "apellido_mat", Empty),
   tipo_relacion  |-> Pop(data, "tipo_relacion", 0),
   empresa        |-> Pop(data, "empresa", Empty),
   cargo          |-> Empty,
   notas          |-> Empty,
   favorito       |-> Pop(data, "favorito", FALSE),
   activo         |-> Pop(data, "activo", TRUE)]

NoRow == NuevoContacto("", [f \in {"nombre", "apellido_pat", "apellido_mat",
                                   "tipo_relacion", "empresa", "favorito",
                                   "activo"} |-> Omitted])

\* child row of any kind: valor is numero / email / calle
Hijo(tipo_id, valor, principal) ==
  [tipo_id |-> tipo_id, valor |-> valor, principal |-> principal]

TiposDe(kind) ==
  CASE kind = "telefonos"   -> TiposTelefono
    [] kind = "emails"      -> TiposEmail
    [] kind = "direcciones" -> TiposDireccion

\* ----------------------------------------------------- database constraints
\* mutation: a table without the unique_together constraint
UniqueContactoOff(id, r) == TRUE

\* Contacto.Meta.unique_together, checked for row r stored under key id
UniqueContacto(id, r) ==
  \A o \in DOMAIN contactos \ {id} :
     ~ /\ contactos[o].usuario = r.usuario
       /\ contactos[o].nombre = r.nombre
       /\ contactos[o].apellido_pat = r.apellido_pat
       /\ contactos[o].apellido_mat = r.apellido_mat

\* Contacto.tipo_relacion foreign key
FkTipoRelacion(r) == r.tipo_relacion \in DOMAIN tipos_relacion

\* mutation: a foreign key that protects nothing
ProtectNone(tipo) == {}

\* tipo_relacion = ForeignKey(TipoRelacion, on_delete=models.PROTECT): the
\* contacts that keep the row tipo from being deleted
Protect(tipo) == {id \in DOMAIN contactos : contactos[id].tipo_relacion = tipo}

\* the same foreign key as the database enforces it on a DELETE of the row
FkReferenced(tipo) == \E id \in DOMAIN contactos : contactos[id].tipo_relacion = tipo

\* mutation: child tables without their unique_together constraint
UniqueHijoOff(kind, cid, child) == TRUE

\* TelefonoContacto / EmailContacto unique_together; DireccionContacto has none
UniqueHijo(kind, cid, child) ==
  kind \in {"telefonos", "emails"} =>
     \A i \in 1..Len(hijos[kind][cid]) : hijos[kind][cid][i].valor # child.valor

\* the child's foreign keys: contacto (CASCADE) and tipo (PROTECT)
FkHijo(kind, cid, child) ==
  /\ cid \in DOMAIN contactos
  /\ child.tipo_id \in TiposDe(kind)

\* ------------------------------------------------------------ serializers
SerializerFields ==
  {"nombre", "apellido_pat", "apellido_mat", "tipo_relacion", "empresa",
   "favorito", "activo", "telefonos", "emails", "direcciones"}

BodyFields == SerializerFields \cup {"usuario"}

\* the CharFields of the serializer
TextFields == {"nombre", "apellido_pat", "apellido_mat", "empresa"}

\* mutation: a serializer that declares every field of the body
ValidatedDataAll(body) == body

\* to_internal_value: only the declared fields of the body are kept, and a
\* CharField strips its value (trim_whitespace)
ValidatedData(body) ==
  [f \in BodyFields |->
     IF f \notin SerializerFields THEN Omitted
     ELSE IF f \in TextFields /\ Has(body, f) THEN Given(Strip(Val(body, f)))
     ELSE body[f]]

HijosValidos(kind, lista) ==
  \A i \in 1..Len(lista) :
     CASE kind = "telefonos"   -> ValidNumero(lista[i].valor)
       [] kind = "emails"      -> ValidEmail(lista[i].valor)
       [] kind = "direcciones" -> lista[i].valor # Empty

\* serializer.is_valid(): field validation only.  No UniqueTogetherValidator
\* is generated, because usuario (for Contacto) and contacto (for the
\* children) are not fields of the serializers.
IsValid(body, partial) ==
  /\ ~partial => Has(body, "nombre") /\ Has(body, "tipo_relacion")
  /\ Has(body, "nombre") => Strip(Val(body, "nombre")) # Empty
  /\ Has(body, "tipo_relacion") => Val(body, "tipo_relacion") \in DOMAIN tipos_relacion
  /\ \A kind \in Kinds : Has(body, kind) => HijosValidos(kind, Val(body, kind))

\* ------------------------------------------------------------- statements
\* one ORM call = one statement run by the database in autocommit mode
Stmt(k, kind, child) == [k |-> k, kind |-> kind, child |-> child]

NoHijo == Hijo(0, Empty, FALSE)

InsertHijos(kind, lista) ==
  [i \in 1..Len(lista) |-> Stmt("insert_hijo", kind, lista[i])]

\* ContactoCreateUpdateSerializer.create: the statements after
\* Contacto.objects.create
CreateStmts(data) ==
  <<Stmt("create", "", NoHijo)>>
    \o InsertHijos("telefonos", Pop(data, "telefonos", <<>>))
    \o InsertHijos("emails", Pop(data, "emails", <<>>))
    \o InsertHijos("direcciones", Pop(data, "direcciones", <<>>))

\* mutation: the children are deleted whether or not a list was supplied
ReplaceStmtsAlways(kind, lista) ==
  <<Stmt("delete_hijos", kind, NoHijo)>> \o InsertHijos(kind, lista)

\* mutation: the supplied children are added to the stored ones
ReplaceStmtsMerge(kind, lista) == InsertHijos(kind, lista)

\* if <kind>_data: instance.<kind>.all().delete(); create each
ReplaceStmts(kind, lista) ==
  IF Len(lista) > 0
    THEN <<Stmt("delete_hijos", kind, NoHijo)>> \o InsertHijos(kind, lista)
    ELSE <<>>

\* ContactoCreateUpdateSerializer.update
UpdateStmts(data) ==
  <<Stmt("save", "", NoHijo)>>
    \o ReplaceStmts("telefonos", Pop(data, "telefonos", <<>>))
    \o ReplaceStmts("emails", Pop(data, "emails", <<>>))
    \o ReplaceStmts("direcciones", Pop(data, "direcciones", <<>>))

\* for attr, value in validated_data.items(): setattr(instance, attr, value)
SetAttrs(instance, data) ==
  [f \in DOMAIN instance |->
     IF f \in BodyFields /\ Has(data, f) THEN Val(data, f) ELSE instance[f]]

\* ---------------------------------------------------------------- querysets
Lower(c) ==
  CASE c = "A" -> "a" [] c = "F" -> "f" [] c = "L" -> "l" [] c = "N" -> "n"
    [] c = "R" -> "r" [] c = "T" -> "t" [] c = "U" -> "u"
    [] OTHER -> c

LowerText(s) == [i \in 1..Len(s) |-> Lower(s[i])]

\* field__icontains=t
IContains(s, t) ==
  \E k \in 0..(Len(s) - Len(t)) :
     \A i \in 1..Len(t) : Lower(s[k + i]) = Lower(t[i])

\* mutation: the queryset without its owner filter
FilterUsuarioAll(user) == DOMAIN contactos

\* Contacto.objects.filter(usuario=request.user)
FilterUsuario(user) == {id \in DOMAIN contactos : contactos[id].usuario = user}

\* ContactoListCreateView.get_queryset
ListQuerySet(user) == FilterUsuario(user)

\* ContactoDetailView.get_queryset
DetailQuerySet(user) == FilterUsuario(user)

\* ContactoTodosView.get_queryset
TodosQuerySet(user) == FilterUsuario(user)

\* ContactoFavoritosView.get_queryset
FavoritosQuerySet(user) == {id \in FilterUsuario(user) : contactos[id].favorito}

\* mutation: INNER JOIN of the child tables
JoinRowsInner(id) == (1..Len(telefonos[id])) \X (1..Len(emails[id]))

\* rows of Contacto LEFT JOIN telefonos LEFT JOIN emails for one contact:
\* <<i, j>>, an index into each child table, 0 for the NULL row
JoinRows(id) ==
  (IF Len(telefonos[id]) = 0 THEN {0} ELSE 1..Len(telefonos[id]))
    \X (IF Len(emails[id]) = 0 THEN {0} ELSE 1..Len(emails[id]))

\* the Q(...) | Q(...) of the search, on one row of the join
QMatch(id, ij, q) ==
  \/ IContains(contactos[id].nombre, q)
  \/ IContains(contactos[id].apellido_pat, q)
  \/ IContains(contactos[id].apellido_mat, q)
  \/ IContains(contactos[id].empresa, q)
  \/ IContains(contactos[id].cargo, q)
  \/ IContains(contactos[id].notas, q)
  \/ ij[1] > 0 /\ IContains(telefonos[id][ij[1]].valor, q)
  \/ ij[2] > 0 /\ IContains(emails[id][ij[2]].valor, q)

True == <<"t", "r", "u", "e">>

DigitVal(c) ==
  CASE c = "0" -> 0 [] c = "1" -> 1 [] c = "2" -> 2 [] c = "3" -> 3 [] c = "4" -> 4
    [] c = "5" -> 5 [] c = "6" -> 6 [] c = "7" -> 7 [] c = "8" -> 8 [] c = "9" -> 9

\* the integer that the database reads in a string of digits
RECURSIVE ParseInt(_)
ParseInt(s) ==
  IF Len(s) = 0 THEN 0
  ELSE 10 * ParseInt(SubSeq(s, 1, Len(s) - 1)) + DigitVal(s[Len(s)])

\* the filters of ContactoBuscarView.get_queryset after the term
OtrosFiltros(id, p) ==
  /\ (Has(p, "tipo") /\ Val(p, "tipo") # Empty) =>
        contactos[id].tipo_relacion = ParseInt(Val(p, "tipo"))
  /\ Has(p, "favorito") =>
        contactos[id].favorito = (LowerText(Val(p, "favorito")) = True)
  /\ (Has(p, "empresa") /\ Val(p, "empresa") # Empty) =>
        IContains(contactos[id].empresa, Val(p, "empresa"))
  /\ Has(p, "activo") =>
        contactos[id].activo = (LowerText(Val(p, "activo")) = True)

\* mutation: the joined rows as they are, without distinct()
DistinctOff(n) == n

\* .distinct(): the rows left of n equal rows
Distinct(n) == IF n > 0 THEN 1 ELSE 0

\* the number of rows of contact id in the result of
\* ContactoBuscarView.get_queryset: the term filter joins the child tables
\* and is followed by distinct()
BuscarFilas(id, p) ==
  IF ~OtrosFiltros(id, p) THEN 0
  ELSE IF Has(p, "q") /\ Val(p, "q") # Empty
    THEN Distinct(Cardinality({ij \in JoinRows(id) : QMatch(id, ij, Val(p, "q"))}))
  ELSE 1

\* ContactoBuscarView.get_queryset
BuscarQuerySet(user, p) == {id \in FilterUsuario(user) : BuscarFilas(id, p) > 0}

\* the rows of the search response: <<id, owner, k>> is the k-th row of
\* contact id
BuscarResults(user, p) ==
  UNION {{<<id, contactos[id].usuario, k>> : k \in 1..BuscarFilas(id, p)} :
            id \in BuscarQuerySet(user, p)}

\* ContactoPorTipoView.get: the contacts of every active type
PorTipoQuerySet(user, tipo) ==
  {id \in DOMAIN contactos :
     contactos[id].usuario = user /\ contactos[id].tipo_relacion = tipo}

\* mutation: every type of the catalog, active or not
TiposTodos == DOMAIN tipos_relacion

\* mutation: the breakdown of estadisticas over the active types alone
TiposCatalogoActivos == {t \in DOMAIN tipos_relacion : tipos_relacion[t].activo}

\* TipoRelacion.objects.all()
TiposCatalogo == DOMAIN tipos_relacion

\* TipoRelacion.objects.filter(activo=True)
TiposActivos == {t \in DOMAIN tipos_relacion : tipos_relacion[t].activo}

\* the types in the order of TipoRelacion.Meta.ordering (nombre); the names
\* of the catalog grow with the ids
RECURSIVE OrdenTipos(_)
OrdenTipos(S) ==
  IF S = {} THEN <<>>
  ELSE LET m == CHOOSE x \in S : \A y \in S : x <= y
       IN <<m>> \o OrdenTipos(S \ {m})

\* ContactoEstadisticasView.get: the base queryset of every count
EstadisticasQuerySet(user) ==
  {id \in DOMAIN contactos : contactos[id].usuario = user}

\* the rows of queryset.filter(<kind>__isnull=False).distinct(): the join
\* has one row per child, <<id, k>> is the k-th row left of contact id
ConHijos(user, kind) ==
  UNION {{<<id, k>> : k \in 1..Distinct(Len(hijos[kind][id]))} :
            id \in EstadisticasQuerySet(user)}

\* the counts of the estadisticas dict, in the order they are evaluated
StatNames ==
  <<"total_contactos", "contactos_favoritos", "contactos_activos",
    "contactos_inactivos", "con_telefono", "con_email", "con_direccion">>

\* queryset[.filter(...)].count() of one entry
StatCount(user, name) ==
  CASE name = "total_contactos" -> Cardinality(EstadisticasQuerySet(user))
    [] name = "contactos_favoritos" ->
         Cardinality({id \in EstadisticasQuerySet(user) : contactos[id].favorito})
    [] name = "contactos_activos" ->
         Cardinality({id \in EstadisticasQuerySet(user) : contactos[id].activo})
    [] name = "contactos_inactivos" ->
         Cardinality({id \in EstadisticasQuerySet(user) : ~contactos[id].activo})
    [] name = "con_telefono" -> Cardinality(ConHijos(user, "telefonos"))
    [] name = "con_email" -> Cardinality(ConHijos(user, "emails"))
    [] name = "con_direccion" -> Cardinality(ConHijos(user, "direcciones"))

\* the argument of a statement about one TipoRelacion
TipoArg(tipo) == Hijo(tipo, Empty, FALSE)

\* ContactoEstadisticasView.get: the counts, then the loop over the types
EstadisticasStmts ==
  [i \in 1..Len(StatNames) |-> Stmt("count", StatNames[i], NoHijo)]
    \o <<Stmt("tipos", "todos", NoHijo)>>

\* ContactoPorTipoView.get: the loop over the active types
PorTipoStmts == <<Stmt("tipos", "activos", NoHijo)>>

\* the body of the loop for one type: por-tipo evaluates contactos.count()
\* and then serializer.data, estadisticas the count alone
TipoStmts(op, tipo) ==
  IF op = "por_tipo"
    THEN <<Stmt("count_tipo", op, TipoArg(tipo)), Stmt("list_tipo", op, TipoArg(tipo))>>
    ELSE <<Stmt("count_tipo", op, TipoArg(tipo))>>

RECURSIVE LoopStmts(_, _)
LoopStmts(op, tipos) ==
  IF Len(tipos) = 0 THEN <<>>
  ELSE TipoStmts(op, Head(tipos)) \o LoopStmts(op, Tail(tipos))

\* mutation: the lookup by primary key alone
ToggleGetAny(user, pk) == pk \in DOMAIN contactos

\* Contacto.objects.get(pk=pk, usuario=request.user) finds a row
ToggleGet(user, pk) ==
  pk \in DOMAIN contactos /\ contactos[pk].usuario = user

\* the rows of a response, each with the owner it was stored with
Rows(ids) == {<<id, contactos[id].usuario>> : id \in ids}

\* Contacto.nombre_completo
NombreCompleto(r) ==
  Strip(Join(NoVacios(<<r.nombre, r.apellido_pat, r.apellido_mat>>), <<" ">>))

\* DireccionContacto.direccion_completa; of its parts the rows of the model
\* carry calle alone
DireccionCompleta(h) == Strip(Join(NoVacios(<<h.valor>>), <<",", " ">>))

\* None, the result of first() on an empty queryset and of the method fields
None == <<>>

\* mutation: the related rows without the filter on principal
FilterPrincipalOff(rows) == rows

\* obj.<hijos>.filter(principal=True)
FilterPrincipal(rows) == SelectSeq(rows, LAMBDA h : h.principal)

\* QuerySet.first(): the models of the children declare no ordering, so the
\* rows are ordered by primary key, which is the order they were inserted in
First(rows) == IF Len(rows) = 0 THEN None ELSE Given(Head(rows))

\* get_telefono_principal / get_email_principal / get_direccion_principal
GetPrincipal(kind, id) ==
  LET h == First(FilterPrincipal(hijos[kind][id]))
  IN IF h = None THEN None
     ELSE IF kind = "direcciones" THEN Given(DireccionCompleta(h[1]))
     ELSE Given(h[1].valor)

\* ContactoListSerializer(many=True).data: the rows with their owner, their
\* nombre_completo and their method fields
ListData(ids) ==
  {<<id, contactos[id].usuario,
     [nombre_completo     |-> NombreCompleto(contactos[id]),
      telefono_principal  |-> GetPrincipal("telefonos", id),
      email_principal     |-> GetPrincipal("emails", id),
      direccion_principal |-> GetPrincipal("direcciones", id)]>> : id \in ids}

\* ------------------------------------------------------------------ inputs
MkBody(over) == [f \in BodyFields |-> IF f \in DOMAIN over THEN Given(over[f]) ELSE Omitted]

NoBody == MkBody(<<>>)

Tel1 == Hijo(1, Num1, TRUE)
Tel2 == Hijo(1, Num2, FALSE)
Em1  == Hijo(1, Mail1, TRUE)
Em2  == Hijo(1, Mail2, TRUE)
Dir1 == Hijo(1, Ana, FALSE)
Dir2 == Hijo(1, Ruiz, TRUE)

\* request bodies of POST /contactos/
CreateBodies ==
  { MkBody([nombre |-> Ana, tipo_relacion |-> 1, usuario |-> "u2",
            telefonos |-> <<Tel1>>, emails |-> <<Em1>>, direcciones |-> <<Dir1>>]),
    MkBody([nombre |-> Luis, tipo_relacion |-> 1, telefonos |-> <<Tel1, Tel1>>]),
    MkBody([nombre |-> Luis, tipo_relacion |-> 1,
            telefonos |-> <<Hijo(1, NumCorto, FALSE)>>]) }

\* request bodies of PUT/PATCH /contactos/{id}/
UpdateBodies ==
  { MkBody([favorito |-> TRUE, usuario |-> "u2"]),
    MkBody([nombre |-> Luis]),
    MkBody([telefonos |-> <<>>, emails |-> <<>>, direcciones |-> <<>>]),
    MkBody([telefonos |-> <<Tel2>>]),
    MkBody([telefonos |-> <<Tel2, Tel2>>]),
    MkBody([emails |-> <<Em2>>, direcciones |-> <<Dir2, Dir2>>]),
    MkBody([emails |-> <<Em2, Em2>>]) }

BuscarFields == {"q", "tipo", "favorito", "empresa", "activo"}

MkParams(over) == [f \in BuscarFields |-> IF f \in DOMAIN over THEN Given(over[f]) ELSE Omitted]

NoParams == MkParams(<<>>)

\* query strings of GET /contactos/buscar/
BuscarParams ==
  { MkParams(<<>>),
    MkParams([q |-> <<"5", "5", "5">>]),
    MkParams([favorito |-> <<"T", "r", "u", "e">>]) }

\* ----------------------------------------------------------------- workers
NoPrefetch == [telefonos |-> <<>>, emails |-> <<>>, direcciones |-> <<>>]

\* a worker with no request
Idle ==
  [op |-> "idle", user |-> "", pk |-> 0, body |-> NoBody, instance |-> NoRow,
   prefetch |-> NoPrefetch, todo |-> <<>>, status |-> 0, result |-> {},
   params |-> NoParams, count |-> 0, conteos |-> {}, grupos |-> {}]

\* the response of a request that ends before any statement
Rejected(op, user, pk, body, status) ==
  [Idle EXCEPT !.op = op, !.user = user, !.pk = pk, !.body = body, !.status = status]

\* the response of a read
Answered(op, user, pk, result) ==
  [Idle EXCEPT !.op = op, !.user = user, !.pk = pk, !.status = 200, !.result = result]

\* a request that goes on to run statements
Running(op, user, pk, body, instance, prefetch, todo) ==
  [Idle EXCEPT !.op = op, !.user = user, !.pk = pk, !.body = body,
               !.instance = instance, !.prefetch = prefetch, !.todo = todo]

\* prefetch_related('telefonos', 'emails', 'direcciones') of get_queryset
Prefetch(pk) ==
  [telefonos |-> telefonos[pk], emails |-> emails[pk], direcciones |-> direcciones[pk]]

\* status of the response once every statement has run
SuccessStatus(op) ==
  CASE op = "create"  -> 201
    [] op = "destroy" -> 204
    [] op = "delete_tipo" -> 204
    [] OTHER          -> 200

IsIdle(w)    == req[w].op = "idle"
IsRunning(w) == req[w].op # "idle" /\ req[w].status = 0 /\ Len(req[w].todo) > 0
IsDone(w)    == req[w].status # 0

\* the worker has a Contacto INSERT still to run
PendingCreate(w) == IsRunning(w) /\ req[w].todo[1].k = "create"

DbUnchanged == UNCHANGED <<contactos, telefonos, emails, direcciones, tipos_relacion, next_id>>

\* ------------------------------------------------------- request handlers
\* POST /contactos/ : is_valid, then perform_create -> serializer.save(usuario=user)
Create(w, user, body) ==
  /\ IsIdle(w)
  /\ next_id + Cardinality({v \in Workers : PendingCreate(v)}) <= MaxContactos
  /\ req' = [req EXCEPT ![w] =
       IF ~IsValid(body, FALSE)
         THEN Rejected("create", user, 0, body, 400)
         ELSE Running("create", user, 0, body,
                      NuevoContacto(user, ValidatedData(body)), NoPrefetch,
                      CreateStmts(ValidatedData(body)))]
  /\ DbUnchanged

\* PUT / PATCH /contactos/{pk}/ : get_object, is_valid, perform_update
Update(w, user, pk, body, partial) ==
  /\ IsIdle(w)
  /\ req' = [req EXCEPT ![w] =
       IF pk \notin DetailQuerySet(user)
         THEN Rejected("update", user, pk, body, 404)
       ELSE IF ~IsValid(body, partial)
         THEN Rejected("update", user, pk, body, 400)
       ELSE IF contactos[pk].usuario # user
         THEN Rejected("update", user, pk, body, 403)
       ELSE Running("update", user, pk, body,
                    SetAttrs(contactos[pk], ValidatedData(body)), Prefetch(pk),
                    UpdateStmts(ValidatedData(body)))]
  /\ DbUnchanged

\* DELETE /contactos/{pk}/ : get_object, perform_destroy
Destroy(w, user, pk) ==
  /\ IsIdle(w)
  /\ req' = [req EXCEPT ![w] =
       IF pk \notin DetailQuerySet(user)
         THEN Rejected("destroy", user, pk, NoBody, 404)
       ELSE IF contactos[pk].usuario # user
         THEN Rejected("destroy", user, pk, NoBody, 403)
       ELSE Running("destroy", user, pk, NoBody, contactos[pk], Prefetch(pk),
                    <<Stmt("delete", "", NoHijo)>>)]
  /\ DbUnchanged

\* mutation: the contact is marked as favourite instead of flipped
ToggleFavoritoOn(w, user, pk) ==
  /\ IsIdle(w)
  /\ req' = [req EXCEPT ![w] =
       IF ~ToggleGet(user, pk)
         THEN Rejected("toggle", user, pk, NoBody, 404)
         ELSE Running("toggle", user, pk, NoBody,
                      [contactos[pk] EXCEPT !.favorito = TRUE],
                      NoPrefetch, <<Stmt("save", "", NoHijo)>>)]
  /\ DbUnchanged

\* POST /contactos/{pk}/toggle-favorito/ : get, flip, then save
ToggleFavorito(w, user, pk) ==
  /\ IsIdle(w)
  /\ req' = [req EXCEPT ![w] =
       IF ~ToggleGet(user, pk)
         THEN Rejected("toggle", user, pk, NoBody, 404)
         ELSE Running("toggle", user, pk, NoBody,
                      [contactos[pk] EXCEPT !.favorito = ~contactos[pk].favorito],
                      NoPrefetch, <<Stmt("save", "", NoHijo)>>)]
  /\ DbUnchanged

\* GET /contactos/
List(w, user) ==
  /\ IsIdle(w)
  /\ req' = [req EXCEPT ![w] = Answered("list", user, 0, ListData(ListQuerySet(user)))]
  /\ DbUnchanged

\* GET /contactos/todos/
Todos(w, user) ==
  /\ IsIdle(w)
  /\ req' = [req EXCEPT ![w] = Answered("todos", user, 0, ListData(TodosQuerySet(user)))]
  /\ DbUnchanged

\* GET /contactos/favoritos/
Favoritos(w, user) ==
  /\ IsIdle(w)
  /\ req' = [req EXCEPT ![w] = Answered("favoritos", user, 0, ListData(FavoritosQuerySet(user)))]
  /\ DbUnchanged

\* GET /contactos/buscar/
Buscar(w, user, p) ==
  /\ IsIdle(w)
  /\ req' = [req EXCEPT ![w] =
       [Answered("buscar", user, 0, BuscarResults(user, p))
          EXCEPT !.params = p, !.count = Cardinality(BuscarResults(user, p))]]
  /\ DbUnchanged

\* GET /contactos/por-tipo/
PorTipo(w, user) ==
  /\ IsIdle(w)
  /\ req' = [req EXCEPT ![w] =
       Running("por_tipo", user, 0, NoBody, NoRow, NoPrefetch, PorTipoStmts)]
  /\ DbUnchanged

\* GET /contactos/estadisticas/
Estadisticas(w, user) ==
  /\ IsIdle(w)
  /\ req' = [req EXCEPT ![w] =
       Running("estadisticas", user, 0, NoBody, NoRow, NoPrefetch, EstadisticasStmts)]
  /\ DbUnchanged

\* GET /contactos/{pk}/ : get_object
Retrieve(w, user, pk) ==
  /\ IsIdle(w)
  /\ req' = [req EXCEPT ![w] =
       IF pk \notin DetailQuerySet(user)
         THEN Rejected("retrieve", user, pk, NoBody, 404)
         ELSE Answered("retrieve", user, pk, Rows({pk}))]
  /\ DbUnchanged

\* TipoRelacion.delete(), which no view of Contactos/views.py calls: the
\* deletion collector raises ProtectedError while a contact references the row
DeleteTipoRelacion(w, tipo) ==
  /\ IsIdle(w)
  /\ req' = [req EXCEPT ![w] =
       IF tipo \notin DOMAIN tipos_relacion
         THEN Rejected("delete_tipo", "", tipo, NoBody, 404)
       ELSE IF Protect(tipo) # {}
         THEN Rejected("delete_tipo", "", tipo, NoBody, 409)
       ELSE Running("delete_tipo", "", tipo, NoBody, NoRow, NoPrefetch,
                    <<Stmt("delete_tipo", "", NoHijo)>>)]
  /\ DbUnchanged

\* ------------------------------------------------------ statement execution
\* the response of a handler that ran statements: the objects it loaded are gone
Ended(r, status) ==
  [r EXCEPT !.todo = <<>>, !.instance = NoRow, !.prefetch = NoPrefetch,
            !.status = status]

\* the worker after its first statement ran
Advance(r) ==
  IF Len(r.todo) = 1 THEN Ended(r, SuccessStatus(r.op))
                     ELSE [r EXCEPT !.todo = Tail(r.todo)]

\* IntegrityError: unhandled, the response is HTTP 500 and the handler ends
Failed(r) == Ended(r, 500)

Head1(w) == req[w].todo[1]

SetHijos(kind, cid, val) ==
  /\ telefonos' = IF kind = "telefonos" THEN [telefonos EXCEPT ![cid] = val] ELSE telefonos
  /\ emails' = IF kind = "emails" THEN [emails EXCEPT ![cid] = val] ELSE emails
  /\ direcciones' = IF kind = "direcciones" THEN [direcciones EXCEPT ![cid] = val]
                                            ELSE direcciones

\* the table with row r stored under key id
Put(id, r) == [i \in DOMAIN contactos \cup {id} |-> IF i = id THEN r ELSE contactos[i]]

\* Contacto.objects.create(**validated_data): INSERT
ExecCreate(w) ==
  /\ IsRunning(w)
  /\ Head1(w).k = "create"
  /\ IF UniqueContacto(next_id, req[w].instance) /\ FkTipoRelacion(req[w].instance)
       THEN /\ contactos' = Put(next_id, req[w].instance)
            /\ next_id' = next_id + 1
            /\ req' = [req EXCEPT ![w] = [Advance(req[w]) EXCEPT !.pk = next_id]]
       ELSE /\ req' = [req EXCEPT ![w] = Failed(req[w])]
            /\ UNCHANGED <<contactos, next_id>>
  /\ UNCHANGED <<telefonos, emails, direcciones, tipos_relacion>>

\* instance.save(): UPDATE of every column by primary key, INSERT when the
\* UPDATE matched no row
ExecSave(w) ==
  /\ IsRunning(w)
  /\ Head1(w).k = "save"
  /\ IF UniqueContacto(req[w].pk, req[w].instance) /\ FkTipoRelacion(req[w].instance)
       THEN /\ contactos' = Put(req[w].pk, req[w].instance)
            /\ req' = [req EXCEPT ![w] = Advance(req[w])]
       ELSE /\ req' = [req EXCEPT ![w] = Failed(req[w])]
            /\ UNCHANGED contactos
  /\ UNCHANGED <<telefonos, emails, direcciones, tipos_relacion, next_id>>

\* instance.<kind>.all().delete()
ExecDeleteHijos(w) ==
  /\ IsRunning(w)
  /\ Head1(w).k = "delete_hijos"
  /\ SetHijos(Head1(w).kind, req[w].pk, <<>>)
  /\ req' = [req EXCEPT ![w] = Advance(req[w])]
  /\ UNCHANGED <<contactos, tipos_relacion, next_id>>

\* <Kind>Contacto.objects.create(contacto=instance, **data): INSERT
ExecInsertHijo(w) ==
  /\ IsRunning(w)
  /\ Head1(w).k = "insert_hijo"
  /\ LET kind == Head1(w).kind
         child == Head1(w).child
         cid == req[w].pk
     IN IF FkHijo(kind, cid, child) /\ UniqueHijo(kind, cid, child)
          THEN /\ SetHijos(kind, cid, Append(hijos[kind][cid], child))
               /\ req' = [req EXCEPT ![w] = Advance(req[w])]
          ELSE /\ req' = [req EXCEPT ![w] = Failed(req[w])]
               /\ UNCHANGED <<telefonos, emails, direcciones>>
  /\ UNCHANGED <<contactos, tipos_relacion, next_id>>

\* mutation: a child foreign key that leaves the rows of a deleted contact
OnDeleteNothing(tabla, pk) == tabla

\* contacto = ForeignKey(Contacto, on_delete=models.CASCADE): the child table
\* once the rows of contact pk are deleted with it
OnDeleteCascade(tabla, pk) == [tabla EXCEPT ![pk] = <<>>]

\* instance.delete(): the row and, by CASCADE, its children, in one transaction
ExecDelete(w) ==
  /\ IsRunning(w)
  /\ Head1(w).k = "delete"
  /\ contactos' = [i \in DOMAIN contactos \ {req[w].pk} |-> contactos[i]]
  /\ telefonos' = OnDeleteCascade(telefonos, req[w].pk)
  /\ emails' = OnDeleteCascade(emails, req[w].pk)
  /\ direcciones' = OnDeleteCascade(direcciones, req[w].pk)
  /\ req' = [req EXCEPT ![w] = Advance(req[w])]
  /\ UNCHANGED <<tipos_relacion, next_id>>

\* DELETE of a TipoRelacion row, refused by the database while referenced
ExecDeleteTipo(w) ==
  /\ IsRunning(w)
  /\ Head1(w).k = "delete_tipo"
  /\ IF FkReferenced(req[w].pk)
       THEN /\ req' = [req EXCEPT ![w] = Failed(req[w])]
            /\ UNCHANGED tipos_relacion
       ELSE /\ tipos_relacion' =
                 [t \in DOMAIN tipos_relacion \ {req[w].pk} |-> tipos_relacion[t]]
            /\ req' = [req EXCEPT ![w] = Advance(req[w])]
  /\ UNCHANGED <<contactos, telefonos, emails, direcciones, next_id>>

\* queryset[.filter(...)].count(): one entry of the estadisticas dict
ExecCount(w) ==
  /\ IsRunning(w)
  /\ Head1(w).k = "count"
  /\ req' = [req EXCEPT ![w] =
       Advance([req[w] EXCEPT
                  !.conteos = @ \cup {<<Head1(w).kind, StatCount(req[w].user, Head1(w).kind)>>},
                  !.result = @ \cup Rows(EstadisticasQuerySet(req[w].user))])]
  /\ DbUnchanged

\* for tipo in tipos: the query of the types; the loop body is run for each
\* row it returned
ExecTipos(w) ==
  /\ IsRunning(w)
  /\ Head1(w).k = "tipos"
  /\ LET tipos == OrdenTipos(IF Head1(w).kind = "activos" THEN TiposActivos
                                                        ELSE TiposCatalogo)
     IN req' = [req EXCEPT ![w] =
          Advance([req[w] EXCEPT
                     !.todo = <<Head1(w)>> \o LoopStmts(req[w].op, tipos) \o Tail(@)])]
  /\ DbUnchanged

\* Contacto.objects.filter(usuario=user, tipo_relacion=tipo).count(): kept for
\* the entry of the type (por-tipo), or entered when positive (estadisticas)
ExecCountTipo(w) ==
  /\ IsRunning(w)
  /\ Head1(w).k = "count_tipo"
  /\ LET tipo == Head1(w).child.tipo_id
         n == Cardinality(PorTipoQuerySet(req[w].user, tipo))
     IN req' = [req EXCEPT ![w] =
          Advance(IF req[w].op = "por_tipo"
                    THEN [req[w] EXCEPT !.count = n]
                    ELSE [req[w] EXCEPT
                            !.grupos = IF n > 0 THEN @ \cup {<<tipo, n, {}>>} ELSE @,
                            !.result = @ \cup Rows(PorTipoQuerySet(req[w].user, tipo))])]
  /\ DbUnchanged

\* serializer.data of the contacts of one type, and the entry of the type:
\* <<tipo, count, contactos>>
ExecListTipo(w) ==
  /\ IsRunning(w)
  /\ Head1(w).k = "list_tipo"
  /\ LET tipo == Head1(w).child.tipo_id
         ids == PorTipoQuerySet(req[w].user, tipo)
     IN req' = [req EXCEPT ![w] =
          Advance([req[w] EXCEPT
                     !.grupos = @ \cup {<<tipo, req[w].count, ids>>},
                     !.result = @ \cup ListData(ids),
                     !.count = 0])]
  /\ DbUnchanged

\* the response leaves; the worker is free for the next request
Respond(w) ==
  /\ IsDone(w)
  /\ req' = [req EXCEPT ![w] = Idle]
  /\ DbUnchanged

\* the process stops between two statements of a handler: nothing is rolled
\* back, the statements that ran are committed, and the worker is restarted
Crash(w) ==
  /\ IsRunning(w)
  /\ req' = [req EXCEPT ![w] = Idle]
  /\ DbUnchanged

\* =================================================================== users
\* CustomUser.RolChoices
Roles == {"admin", "user", "moderator"}

\* CustomUser row; create_user leaves is_active at its default
NuevoUsuario(rol) == [rol |-> rol, is_active |-> TRUE]

NoUser == [rol |-> "", is_active |-> FALSE]

\* CustomUser.is_admin
is_admin(u) == u.rol = "admin"

\* permissions.IsAdminOnly, for an authenticated user
IsAdminOnly(u) == is_admin(u)

\* permissions.IsAdminOrOwner.has_object_permission
IsAdminOrOwner(actor, u, pk) == is_admin(u) \/ pk = actor

\* the user of the token exists and is active
Authenticated(actor) == actor \in DOMAIN custom_users /\ custom_users[actor].is_active

\* CustomUser.objects.filter(rol=CustomUser.RolChoices.ADMIN).count()
AdminCount == Cardinality({id \in DOMAIN custom_users : is_admin(custom_users[id])})

\* CustomUser.objects.filter(rol=CustomUser.RolChoices.ADMIN, is_active=True).count()
ActiveAdminCount ==
  Cardinality({id \in DOMAIN custom_users :
                 is_admin(custom_users[id]) /\ custom_users[id].is_active})

\* request bodies: rol and is_active of UserUpdateSerializer / UserCreateSerializer,
\* confirm_admin_deletion of the delete requests
UserBodyFields == {"rol", "is_active", "confirm_admin_deletion"}

MkUserBody(over) ==
  [f \in UserBodyFields |-> IF f \in DOMAIN over THEN Given(over[f]) ELSE Omitted]

NoUserBody == MkUserBody(<<>>)

\* request.data.get('confirm_admin_deletion', False)
Confirmation(body) == Pop(body, "confirm_admin_deletion", FALSE)

\* mutation: the rol of the body is kept whoever sends it
SinRolDeOtroOff(user, body, stored) == body

\* perform_update: del serializer.validated_data['rol'] when the request user
\* is not admin and the rol sent is not the stored one
SinRolDeOtro(user, body, stored) ==
  IF ~is_admin(user) /\ Has(body, "rol") /\ Val(body, "rol") # stored.rol
    THEN [body EXCEPT !.rol = Omitted]
    ELSE body

\* UserProfileView.put: del serializer.validated_data['rol'] when the request
\* user is not admin
SinRol(user, body) ==
  IF ~is_admin(user) /\ Has(body, "rol") THEN [body EXCEPT !.rol = Omitted] ELSE body

\* ModelSerializer.update: setattr for the validated fields of
\* UserUpdateSerializer
SetUserAttrs(instance, data) ==
  [rol       |-> Pop(data, "rol", instance.rol),
   is_active |-> Pop(data, "is_active", instance.is_active)]

\* a worker with no request of the users API
UIdle ==
  [op |-> "idle", actor |-> 0, user |-> NoUser, pk |-> 0, body |-> NoUserBody,
   instance |-> NoUser, todo |-> <<>>, status |-> 0]

URejected(op, actor, pk, body, status) ==
  [UIdle EXCEPT !.op = op, !.actor = actor, !.pk = pk, !.body = body, !.status = status]

\* request.user is the row read when the token was checked
URunning(op, actor, pk, body, instance, todo) ==
  [UIdle EXCEPT !.op = op, !.actor = actor,
                !.user = IF actor = 0 THEN NoUser ELSE custom_users[actor],
                !.pk = pk, !.body = body, !.instance = instance, !.todo = todo]

UIsIdle(w)    == ureq[w].op = "idle"
UIsRunning(w) == ureq[w].op # "idle" /\ ureq[w].status = 0
UIsDone(w)    == ureq[w].status # 0

UPendingCreate(w) == UIsRunning(w) /\ Len(ureq[w].todo) > 0 /\ ureq[w].todo[1] = "create_user"

UsersUnchanged == UNCHANGED <<custom_users, next_user_id>>

\* POST register/ : AllowAny; rol is not a field of UserRegisterSerializer and
\* create() sets it to RolChoices.USER
UserRegister(w, body) ==
  /\ UIsIdle(w)
  /\ next_user_id + Cardinality({v \in Workers : UPendingCreate(v)}) <= MaxUsuarios
  /\ ureq' = [ureq EXCEPT ![w] =
       URunning("register", 0, 0, body, NuevoUsuario("user"), <<"create_user", "save">>)]
  /\ UsersUnchanged

\* POST users/ : IsAdminOnly; rol is a field of UserCreateSerializer
UserCreate(w, actor, body) ==
  /\ UIsIdle(w)
  /\ Authenticated(actor)
  /\ next_user_id + Cardinality({v \in Workers : UPendingCreate(v)}) <= MaxUsuarios
  /\ ureq' = [ureq EXCEPT ![w] =
       IF ~IsAdminOnly(custom_users[actor])
         THEN URejected("create", actor, 0, body, 403)
         ELSE URunning("create", actor, 0, body,
                       NuevoUsuario(Pop(body, "rol", "user")), <<"create_user", "save">>)]
  /\ UsersUnchanged

\* PUT / PATCH users/{pk}/ : get_object, is_valid, then perform_update
UserUpdate(w, actor, pk, body) ==
  /\ UIsIdle(w)
  /\ Authenticated(actor)
  /\ ureq' = [ureq EXCEPT ![w] =
       IF pk \notin DOMAIN custom_users
         THEN URejected("update", actor, pk, body, 404)
       ELSE IF ~IsAdminOrOwner(actor, custom_users[actor], pk)
         THEN URejected("update", actor, pk, body, 403)
       ELSE URunning("update", actor, pk, body, custom_users[pk], <<"get_object", "save">>)]
  /\ UsersUnchanged

\* PUT / PATCH profile/ : the instance is request.user
UserProfilePut(w, actor, body) ==
  /\ UIsIdle(w)
  /\ Authenticated(actor)
  /\ ureq' = [ureq EXCEPT ![w] =
       URunning("profile_put", actor, actor, body,
                SetUserAttrs(custom_users[actor], SinRol(custom_users[actor], body)),
                <<"save">>)]
  /\ UsersUnchanged

\* the statements of a delete of the row user: the count of the admins when
\* the row is an admin, then user.delete()
DeleteStmts(user) ==
  IF is_admin(user) THEN <<"count_admins", "delete">> ELSE <<"delete">>

\* DELETE users/{pk}/ : get_object (IsAdminOrOwner), then destroy
UserDestroy(w, actor, pk, body) ==
  /\ UIsIdle(w)
  /\ Authenticated(actor)
  /\ ureq' = [ureq EXCEPT ![w] =
       IF pk \notin DOMAIN custom_users
         THEN URejected("destroy", actor, pk, body, 404)
       ELSE IF ~IsAdminOrOwner(actor, custom_users[actor], pk)
         THEN URejected("destroy", actor, pk, body, 403)
       ELSE URunning("destroy", actor, pk, body, custom_users[pk],
                     DeleteStmts(custom_users[pk]))]
  /\ UsersUnchanged

\* DELETE profile/ : the row is request.user
UserProfileDelete(w, actor, body) ==
  /\ UIsIdle(w)
  /\ Authenticated(actor)
  /\ ureq' = [ureq EXCEPT ![w] =
       URunning("profile_delete", actor, actor, body, custom_users[actor],
                DeleteStmts(custom_users[actor]))]
  /\ UsersUnchanged

\* POST users/{pk}/toggle-status/ : IsAdminOnly, get, count of the active
\* admins when the row is an active admin, then save
toggle_user_status(w, actor, pk) ==
  /\ UIsIdle(w)
  /\ Authenticated(actor)
  /\ ureq' = [ureq EXCEPT ![w] =
       IF ~IsAdminOnly(custom_users[actor])
         THEN URejected("toggle_status", actor, pk, NoUserBody, 403)
       ELSE IF pk \notin DOMAIN custom_users
         THEN URejected("toggle_status", actor, pk, NoUserBody, 404)
       ELSE URunning("toggle_status", actor, pk, NoUserBody,
                     [custom_users[pk] EXCEPT !.is_active = ~custom_users[pk].is_active],
                     IF is_admin(custom_users[pk]) /\ custom_users[pk].is_active
                       THEN <<"count_active_admins", "save">>
                       ELSE <<"save">>)]
  /\ UsersUnchanged

\* ------------------------------------------------- statements of the users
UEnded(r, status) == [r EXCEPT !.todo = <<>>, !.status = status, !.instance = NoUser]

UAdvance(r) ==
  IF Len(r.todo) = 1
    THEN UEnded(r, IF r.op \in {"register", "create"} THEN 201 ELSE 200)
    ELSE [r EXCEPT !.todo = Tail(r.todo)]

UHead(w) == ureq[w].todo[1]

\* the table with row r stored under key id
PutUser(id, r) ==
  [i \in DOMAIN custom_users \cup {id} |-> IF i = id THEN r ELSE custom_users[i]]

\* CustomUser.objects.create_user(**validated_data): INSERT
ExecCreateUser(w) ==
  /\ UIsRunning(w)
  /\ UHead(w) = "create_user"
  /\ custom_users' = PutUser(next_user_id, ureq[w].instance)
  /\ next_user_id' = next_user_id + 1
  /\ ureq' = [ureq EXCEPT ![w] = [UAdvance(ureq[w]) EXCEPT !.pk = next_user_id]]

\* perform_update: user = self.get_object(), then the rol of the body is
\* dropped or kept and the validated fields are set on the instance
ExecGetObject(w) ==
  /\ UIsRunning(w)
  /\ UHead(w) = "get_object"
  /\ ureq' = [ureq EXCEPT ![w] =
       IF ureq[w].pk \notin DOMAIN custom_users
         THEN UEnded(ureq[w], 404)
         ELSE UAdvance([ureq[w] EXCEPT !.instance =
                SetUserAttrs(@, SinRolDeOtro(ureq[w].user, ureq[w].body,
                                             custom_users[ureq[w].pk]))])]
  /\ UsersUnchanged

\* user.save() / serializer.save(): UPDATE of every column by primary key,
\* INSERT when the UPDATE matched no row
ExecSaveUser(w) ==
  /\ UIsRunning(w)
  /\ UHead(w) = "save"
  /\ custom_users' = PutUser(ureq[w].pk, ureq[w].instance)
  /\ ureq' = [ureq EXCEPT ![w] = UAdvance(ureq[w])]
  /\ UNCHANGED next_user_id

\* admin_count, then the checks that follow it in destroy / delete
ExecCountAdmins(w) ==
  /\ UIsRunning(w)
  /\ UHead(w) = "count_admins"
  /\ ureq' = [ureq EXCEPT ![w] =
       IF AdminCount <= 1
         THEN UEnded(ureq[w], 400)
       ELSE IF ureq[w].pk = ureq[w].actor /\ ~Confirmation(ureq[w].body)
         THEN UEnded(ureq[w], 400)
       ELSE UAdvance(ureq[w])]
  /\ UsersUnchanged

\* active_admin_count of toggle_user_status
ExecCountActiveAdmins(w) ==
  /\ UIsRunning(w)
  /\ UHead(w) = "count_active_admins"
  /\ ureq' = [ureq EXCEPT ![w] =
       IF ActiveAdminCount <= 1 THEN UEnded(ureq[w], 400) ELSE UAdvance(ureq[w])]
  /\ UsersUnchanged

\* the login names of the users that own contacts
Username == [i \in {1, 2} |-> IF i = 1 THEN "u1" ELSE "u2"]

\* the contacts that Contacto.usuario (on_delete=CASCADE) removes with user pk
ContactosDe(pk) ==
  {id \in DOMAIN contactos : pk \in DOMAIN Username /\ contactos[id].usuario = Username[pk]}

\* user.delete(): the row, and by CASCADE the contacts of the user with
\* their telefonos, emails and direcciones
ExecDeleteUser(w) ==
  /\ UIsRunning(w)
  /\ UHead(w) = "delete"
  /\ custom_users' = [i \in DOMAIN custom_users \ {ureq[w].pk} |-> custom_users[i]]
  /\ contactos' = [i \in DOMAIN contactos \ ContactosDe(ureq[w].pk) |-> contactos[i]]
  /\ telefonos' = [i \in DOMAIN telefonos |->
                     IF i \in ContactosDe(ureq[w].pk) THEN <<>> ELSE telefonos[i]]
  /\ emails' = [i \in DOMAIN emails |->
                  IF i \in ContactosDe(ureq[w].pk) THEN <<>> ELSE emails[i]]
  /\ direcciones' = [i \in DOMAIN direcciones |->
                       IF i \in ContactosDe(ureq[w].pk) THEN <<>> ELSE direcciones[i]]
  /\ ureq' = [ureq EXCEPT ![w] = UAdvance(ureq[w])]
  /\ UNCHANGED next_user_id

\* the response leaves; the worker is free for the next request
URespond(w) ==
  /\ UIsDone(w)
  /\ ureq' = [ureq EXCEPT ![w] = UIdle]
  /\ UsersUnchanged

\* the users before any request of the model: an admin, and users with no
\* special role, with room for one more row
SeedUsuarios ==
  [i \in 1..(MaxUsuarios - 1) |-> NuevoUsuario(IF i = 1 THEN "admin" ELSE "user")]

UsuariosInit ==
  /\ custom_users = SeedUsuarios
  /\ next_user_id = MaxUsuarios
  /\ ureq = [w \in Workers |-> UIdle]

\* ------------------------------------------------------------ specification
TipoRelacionRows ==
  [i \in {1, 2} |-> [nombre |-> IF i = 1 THEN Ana ELSE Luis, activo |-> i = 1]]

\* the rows that POST /contactos/ with the first body of CreateBodies, sent
\* by u1 and then by u2, leaves in an empty database
SeedOwner == [i \in {1, 2} |-> IF i = 1 THEN "u1" ELSE "u2"]

SeedBody ==
  MkBody([nombre |-> Ana, tipo_relacion |-> 1, usuario |-> "u2",
          telefonos |-> <<Tel1>>, emails |-> <<Em1>>, direcciones |-> <<Dir1>>])

SeedHijos(lista) == [i \in 1..MaxContactos |-> IF i \in {1, 2} THEN lista ELSE <<>>]

\* the database is empty, or holds one contact of each user
Init ==
  /\ \/ /\ contactos = <<>>
        /\ telefonos = [i \in 1..MaxContactos |-> <<>>]
        /\ emails = [i \in 1..MaxContactos |-> <<>>]
        /\ direcciones = [i \in 1..MaxContactos |-> <<>>]
        /\ next_id = 1
     \/ /\ contactos = [i \in {1, 2} |-> NuevoContacto(SeedOwner[i], ValidatedData(SeedBody))]
        /\ telefonos = SeedHijos(<<Tel1>>)
        /\ emails = SeedHijos(<<Em1>>)
        /\ direcciones = SeedHijos(<<Dir1>>)
        /\ next_id = 3
  /\ tipos_relacion = TipoRelacionRows
  /\ req = [w \in Workers |-> Idle]
  /\ started = 0
  /\ historial = <<>>
  /\ UsuariosInit

\* the requests of the URL table; updates are sent as PATCH (partial)
Handle(w) ==
  \/ \E user \in Users, body \in CreateBodies : Create(w, user, body)
  \/ \E user \in Users, pk \in PkInputs, body \in UpdateBodies :
        Update(w, user, pk, body, TRUE)
  \/ \E user \in Users, pk \in PkInputs : Destroy(w, user, pk)
  \/ \E user \in Users, pk \in PkInputs : ToggleFavorito(w, user, pk)
  \/ \E user \in Users : List(w, user)
  \/ \E user \in Users : Todos(w, user)
  \/ \E user \in Users : Favoritos(w, user)
  \/ \E user \in Users, p \in BuscarParams : Buscar(w, user, p)
  \/ \E user \in Users : PorTipo(w, user)
  \/ \E user \in Users : Estadisticas(w, user)
  \/ \E user \in Users, pk \in PkInputs : Retrieve(w, user, pk)

Step(w) ==
  \/ ExecCreate(w)
  \/ ExecSave(w)
  \/ ExecDeleteHijos(w)
  \/ ExecInsertHijo(w)
  \/ ExecDelete(w)
  \/ ExecCount(w)
  \/ ExecTipos(w)
  \/ ExecCountTipo(w)
  \/ ExecListTipo(w)
  \/ Respond(w)
  \/ Crash(w)

\* a worker accepts a request; the free worker that comes first takes it
Begin(w, budget) ==
  /\ started < budget
  /\ \A v \in Workers : WorkerOrder[v] < WorkerOrder[w] => ~IsIdle(v)
  /\ started' = started + 1
  /\ Handle(w)
  /\ UNCHANGED <<historial, custom_users, next_user_id, ureq>>

Run(w) == Step(w) /\ UNCHANGED <<started, historial, custom_users, next_user_id, ureq>>

\* a response that is ready leaves before any other worker moves: sending it
\* touches no row, so holding it back adds no behaviour of the database
Next ==
  \E w \in Workers :
     /\ \A v \in Workers \ {w} : ~IsDone(v)
     /\ (Begin(w, MaxRequests) \/ Run(w))

Spec == Init /\ [][Next]_vars

\* one request at a time: a request starts only when no other is in progress
Solo(w) == \A v \in Workers \ {w} : IsIdle(v)

SeqNext == \E w \in Workers : Solo(w) /\ (Begin(w, MaxSeqRequests) \/ Run(w))

SeqSpec == Init /\ [][SeqNext]_vars

\* ---------------------------------------- catalog of relationship types
\* request bodies that move a contact to another TipoRelacion
TipoBodies == {MkBody([tipo_relacion |-> 2])}

\* the requests that add, move and remove references to a TipoRelacion, and
\* the deletion of a TipoRelacion
TipoHandle(w) ==
  \/ \E user \in Users, body \in CreateBodies : Create(w, user, body)
  \/ \E user \in Users, pk \in ContactoIds, body \in TipoBodies :
        Update(w, user, pk, body, TRUE)
  \/ \E user \in Users, pk \in ContactoIds : Destroy(w, user, pk)
  \/ \E tipo \in DOMAIN TipoRelacionRows : DeleteTipoRelacion(w, tipo)

TipoStep(w) ==
  \/ ExecCreate(w)
  \/ ExecSave(w)
  \/ ExecInsertHijo(w)
  \/ ExecDelete(w)
  \/ ExecDeleteTipo(w)
  \/ Respond(w)
  \/ Crash(w)

TipoBegin(w) ==
  /\ started < MaxSeqRequests
  /\ \A v \in Workers : WorkerOrder[v] < WorkerOrder[w] => ~IsIdle(v)
  /\ started' = started + 1
  /\ TipoHandle(w)
  /\ UNCHANGED <<historial, custom_users, next_user_id, ureq>>

TipoRun(w) == TipoStep(w) /\ UNCHANGED <<started, historial, custom_users, next_user_id, ureq>>

TipoNext == \E w \in Workers : Solo(w) /\ (TipoBegin(w) \/ TipoRun(w))

\* one request at a time, the catalog of relationship types being edited
TipoSpec == Init /\ [][TipoNext]_vars

\* ------------------------------------------------------- toggle-favorito
ToggleHandle(w) == \E user \in Users, pk \in ContactoIds : ToggleFavorito(w, user, pk)

ToggleStep(w) ==
  \/ ExecSave(w)
  \/ Respond(w)
  \/ Crash(w)

ToggleBegin(w) ==
  /\ started < MaxSeqRequests
  /\ \A v \in Workers : WorkerOrder[v] < WorkerOrder[w] => ~IsIdle(v)
  /\ started' = started + 1
  /\ ToggleHandle(w)
  /\ UNCHANGED <<historial, custom_users, next_user_id, ureq>>

\* a statement of a toggle; contacto.save() is noted with the favorito it
\* found stored and the one it left stored
ToggleRun(w) ==
  /\ ToggleStep(w)
  /\ UNCHANGED <<started, custom_users, next_user_id, ureq>>
  /\ historial' =
       IF IsRunning(w) /\ req'[w].status = 200
         THEN Append(historial, [pk      |-> req[w].pk,
                                 antes   |-> contactos[req[w].pk].favorito,
                                 despues |-> contactos'[req[w].pk].favorito])
         ELSE historial

ToggleNext == \E w \in Workers : Solo(w) /\ (ToggleBegin(w) \/ ToggleRun(w))

\* toggle requests only, one at a time
ToggleSpec == Init /\ [][ToggleNext]_vars

ToggleRaceNext == \E w \in Workers : ToggleBegin(w) \/ ToggleRun(w)

\* toggle requests only, handled by the workers at the same time
ToggleRaceSpec == Init /\ [][ToggleRaceNext]_vars

\* ------------------------------------------------------------------ search
\* the contact rows of a database that GET /contactos/buscar/ is asked about:
\* contact 1 of u1, and contact 2 of either user
BuscarContactos ==
  {[i \in {1, 2} |->
      IF i = 1
        THEN NuevoContacto("u1", MkBody([nombre |-> n, empresa |-> e, favorito |-> f,
                                         tipo_relacion |-> 1]))
        ELSE NuevoContacto(u, MkBody([nombre |-> Ruiz, tipo_relacion |-> 2,
                                      activo |-> FALSE]))] :
     n \in {Ana, Luis}, e \in {Empty, Ruiz}, f \in BOOLEAN, u \in Users}

\* query strings with every filter omitted or supplied
BuscarParamsAll ==
  {[q |-> q, tipo |-> t, favorito |-> f, empresa |-> e, activo |-> a] :
     q \in {Omitted, Given(Empty), Given(<<"5", "5", "5">>), Given(<<"A", "N">>),
            Given(<<"x", ".", "m">>)},
     t \in {Omitted, Given(<<"1">>), Given(<<"2">>)},
     f \in {Omitted, Given(<<"t", "r", "u", "e">>), Given(<<"F", "a", "l", "s", "e">>)},
     e \in {Omitted, Given(<<"r", "U">>)},
     a \in {Omitted, Given(<<"T", "r", "u", "e">>)}}

\* a database with one or two phones and emails on a contact, and none on
\* the other
BuscarInit ==
  /\ contactos \in BuscarContactos
  /\ telefonos \in {[i \in ContactoIds |-> IF i = 1 THEN t ELSE <<>>] :
                       t \in {<<>>, <<Tel1>>, <<Tel1, Tel2>>}}
  /\ emails \in {[i \in ContactoIds |-> IF i = 1 THEN e ELSE <<>>] :
                    e \in {<<>>, <<Em1, Em2>>}}
  /\ direcciones = [i \in ContactoIds |-> <<>>]
  /\ next_id = 3
  /\ tipos_relacion = TipoRelacionRows
  /\ req = [w \in Workers |-> Idle]
  /\ started = 0
  /\ historial = <<>>
  /\ UsuariosInit

BuscarNext ==
  \E w \in Workers :
     /\ Solo(w)
     /\ \A v \in Workers : WorkerOrder[v] < WorkerOrder[w] => ~IsIdle(v)
     /\ \/ \E user \in Users, p \in BuscarParamsAll : Buscar(w, user, p)
        \/ Respond(w)
     /\ UNCHANGED <<started, historial, custom_users, next_user_id, ureq>>

\* searches of a stored address book, one at a time
BuscarSpec == BuscarInit /\ [][BuscarNext]_vars

\* ----------------------------------------------------------- group by type
\* a catalog with each type active or not, and two contacts of any type,
\* the second of either user
PorTipoInit ==
  /\ contactos \in
       {[i \in {1, 2} |->
           IF i = 1 THEN NuevoContacto("u1", MkBody([nombre |-> Ana, tipo_relacion |-> t1]))
                    ELSE NuevoContacto(u, MkBody([nombre |-> Ruiz, tipo_relacion |-> t2]))] :
          t1 \in DOMAIN TipoRelacionRows, t2 \in DOMAIN TipoRelacionRows, u \in Users}
  /\ tipos_relacion \in
       {[t \in DOMAIN TipoRelacionRows |-> [TipoRelacionRows[t] EXCEPT !.activo = a[t]]] :
          a \in [DOMAIN TipoRelacionRows -> BOOLEAN]}
  /\ telefonos = [i \in ContactoIds |-> <<>>]
  /\ emails = [i \in ContactoIds |-> <<>>]
  /\ direcciones = [i \in ContactoIds |-> <<>>]
  /\ next_id = 3
  /\ req = [w \in Workers |-> Idle]
  /\ started = 0
  /\ historial = <<>>
  /\ UsuariosInit

PorTipoNext ==
  \E w \in Workers :
     /\ Solo(w)
     /\ \A v \in Workers : WorkerOrder[v] < WorkerOrder[w] => ~IsIdle(v)
     /\ \/ \E user \in Users : PorTipo(w, user)
        \/ ExecTipos(w)
        \/ ExecCountTipo(w)
        \/ ExecListTipo(w)
        \/ Respond(w)
     /\ UNCHANGED <<started, historial, custom_users, next_user_id, ureq>>

\* GET /contactos/por-tipo/ on a stored address book, one request at a time
PorTipoSpec == PorTipoInit /\ [][PorTipoNext]_vars

\* ------------------------------------------------------------- statistics
EstadisticasNext ==
  \E w \in Workers :
     /\ Solo(w)
     /\ \A v \in Workers : WorkerOrder[v] < WorkerOrder[w] => ~IsIdle(v)
     /\ \/ \E user \in Users : Estadisticas(w, user)
        \/ ExecCount(w)
        \/ ExecTipos(w)
        \/ ExecCountTipo(w)
        \/ Respond(w)
     /\ UNCHANGED <<started, historial, custom_users, next_user_id, ureq>>

\* GET /contactos/estadisticas/ on a stored address book, one request at a
\* time
EstadisticasSpec == PorTipoInit /\ [][EstadisticasNext]_vars

\* ------------------------------------------------------- principal children
\* lists of one kind: none, one child flagged or not, two children with any
\* flags
ListasPrincipal(v1, v2) ==
  {<<>>}
    \cup {<<Hijo(1, v1, a)>> : a \in BOOLEAN}
    \cup {<<Hijo(1, v1, a), Hijo(1, v2, b)>> : a \in BOOLEAN, b \in BOOLEAN}

\* request bodies of POST /contactos/ that differ in their children
PrincipalBodies ==
  {MkBody([nombre |-> Ana, tipo_relacion |-> 1,
           telefonos |-> t, emails |-> e, direcciones |-> d]) :
     t \in ListasPrincipal(Num1, Num2),
     e \in {<<>>, <<Hijo(1, Mail1, FALSE)>>, <<Em1, Em2>>},
     d \in {<<>>, <<Dir1>>, <<Dir1, Dir2>>}}

PrincipalInit ==
  /\ contactos = <<>>
  /\ telefonos = [i \in ContactoIds |-> <<>>]
  /\ emails = [i \in ContactoIds |-> <<>>]
  /\ direcciones = [i \in ContactoIds |-> <<>>]
  /\ next_id = 1
  /\ tipos_relacion = TipoRelacionRows
  /\ req = [w \in Workers |-> Idle]
  /\ started = 0
  /\ historial = <<>>
  /\ UsuariosInit

PrincipalHandle(w) ==
  \/ \E body \in PrincipalBodies : Create(w, "u1", body)
  \/ \E user \in Users : List(w, user)

PrincipalStep(w) ==
  \/ ExecCreate(w)
  \/ ExecInsertHijo(w)
  \/ Respond(w)

PrincipalBegin(w) ==
  /\ started < MaxRequests
  /\ \A v \in Workers : WorkerOrder[v] < WorkerOrder[w] => ~IsIdle(v)
  /\ started' = started + 1
  /\ PrincipalHandle(w)
  /\ UNCHANGED <<historial, custom_users, next_user_id, ureq>>

PrincipalRun(w) == PrincipalStep(w) /\ UNCHANGED <<started, historial, custom_users, next_user_id, ureq>>

PrincipalNext == \E w \in Workers : Solo(w) /\ (PrincipalBegin(w) \/ PrincipalRun(w))

\* contacts created with any flags of their children, then listed, one
\* request at a time
PrincipalSpec == PrincipalInit /\ [][PrincipalNext]_vars

\* -------------------------------------------------------------- full name
Espacio == <<" ">>
AnaConEspacios == <<" ", "A", "n", "a", " ">>
DeLa == <<"D", "e", " ", "l", "a">>

\* request bodies of POST /contactos/ that differ in the three parts of the
\* name: absent, empty, blank, padded, with a space inside
NombreBodies ==
  {[MkBody([nombre |-> n, tipo_relacion |-> 1])
      EXCEPT !.apellido_pat = p, !.apellido_mat = m] :
     n \in {Empty, Espacio, Ana, AnaConEspacios},
     p \in {Omitted, Given(Empty), Given(Espacio), Given(Ruiz), Given(DeLa)},
     m \in {Omitted, Given(Empty), Given(Espacio), Given(Ruiz), Given(DeLa)}}

NombreHandle(w) ==
  \/ \E body \in NombreBodies : Create(w, "u1", body)
  \/ \E user \in Users : List(w, user)

NombreBegin(w) ==
  /\ started < MaxRequests
  /\ \A v \in Workers : WorkerOrder[v] < WorkerOrder[w] => ~IsIdle(v)
  /\ started' = started + 1
  /\ NombreHandle(w)
  /\ UNCHANGED <<historial, custom_users, next_user_id, ureq>>

NombreRun(w) == (ExecCreate(w) \/ Respond(w)) /\ UNCHANGED <<started, historial, custom_users, next_user_id, ureq>>

NombreNext == \E w \in Workers : Solo(w) /\ (NombreBegin(w) \/ NombreRun(w))

\* contacts created with any parts of the name, then listed, one request at
\* a time
NombreSpec == PrincipalInit /\ [][NombreNext]_vars

\* --------------------------------------------------------- telefono numbers
\* n characters: the first is c, the others are the digit 5
RECURSIVE Cincos(_)
Cincos(n) == IF n = 0 THEN <<>> ELSE <<"5">> \o Cincos(n - 1)

Cifras(c, n) == IF n = 0 THEN <<>> ELSE <<c>> \o Cincos(n - 1)

\* numbers with and without "+", beginning with 1, with another digit or
\* with a letter, of every length up to MaxDigitos
NumeroInputs ==
  {signo \o Cifras(c, n) :
     signo \in {<<>>, <<"+">>}, c \in {"1", "5", "a"}, n \in 0..MaxDigitos}

\* request bodies of POST /contactos/ with one telefono
NumeroBodies ==
  {MkBody([nombre |-> Ana, tipo_relacion |-> 1,
           telefonos |-> <<Hijo(1, numero, FALSE)>>]) : numero \in NumeroInputs}

NumeroBegin(w) ==
  /\ started < MaxRequests
  /\ \A v \in Workers : WorkerOrder[v] < WorkerOrder[w] => ~IsIdle(v)
  /\ started' = started + 1
  /\ \E body \in NumeroBodies : Create(w, "u1", body)
  /\ UNCHANGED <<historial, custom_users, next_user_id, ureq>>

NumeroRun(w) ==
  /\ ExecCreate(w) \/ ExecInsertHijo(w) \/ Respond(w)
  /\ UNCHANGED <<started, historial, custom_users, next_user_id, ureq>>

NumeroNext == \E w \in Workers : Solo(w) /\ (NumeroBegin(w) \/ NumeroRun(w))

\* contacts created with one telefono of any number, one request at a time
NumeroSpec == PrincipalInit /\ [][NumeroNext]_vars

\* ------------------------------------------------------------ user deletion
UserIds == 1..MaxUsuarios

\* the request of a delete carries confirm_admin_deletion: true, or nothing
DeleteBodies == {NoUserBody, MkUserBody([confirm_admin_deletion |-> TRUE])}

\* the table holds MaxUsuarios users, the first k of them admins; users 1
\* and 2 own one contact each
BajaInit ==
  /\ contactos = [i \in {1, 2} |-> NuevoContacto(SeedOwner[i], ValidatedData(SeedBody))]
  /\ telefonos = SeedHijos(<<Tel1>>)
  /\ emails = SeedHijos(<<Em1>>)
  /\ direcciones = SeedHijos(<<Dir1>>)
  /\ next_id = 3
  /\ tipos_relacion = TipoRelacionRows
  /\ req = [w \in Workers |-> Idle]
  /\ started = 0
  /\ historial = <<>>
  /\ \E k \in UserIds :
       custom_users = [i \in UserIds |-> NuevoUsuario(IF i <= k THEN "admin" ELSE "user")]
  /\ next_user_id = MaxUsuarios + 1
  /\ ureq = [w \in Workers |-> UIdle]

BajaHandle(w) ==
  \E actor \in UserIds, body \in DeleteBodies :
     \/ \E pk \in UserIds : UserDestroy(w, actor, pk, body)
     \/ UserProfileDelete(w, actor, body)

UBegin(w, budget) ==
  /\ started < budget
  /\ \A v \in Workers : WorkerOrder[v] < WorkerOrder[w] => ~UIsIdle(v)
  /\ started' = started + 1

BajaBegin(w) ==
  /\ UBegin(w, MaxRequests)
  /\ BajaHandle(w)
  /\ UNCHANGED <<contactos, telefonos, emails, direcciones, tipos_relacion, next_id,
                 req, historial>>

BajaRun(w) ==
  /\ \/ /\ ExecCountAdmins(w) \/ URespond(w)
        /\ UNCHANGED <<contactos, telefonos, emails, direcciones>>
     \/ ExecDeleteUser(w)
  /\ UNCHANGED <<tipos_relacion, next_id, req, started, historial>>

BajaNext ==
  \E w \in Workers :
     /\ \A v \in Workers \ {w} : ~UIsDone(v)
     /\ (BajaBegin(w) \/ BajaRun(w))

\* DELETE users/{id}/ and DELETE profile/ only, handled by the workers at
\* the same time
BajaSpec == BajaInit /\ [][BajaNext]_vars

\* -------------------------------------------------------- user management
\* bodies of PUT / PATCH users/{id}/ and profile/
UserUpdateBodies ==
  {MkUserBody([rol |-> "admin"]),
   MkUserBody([rol |-> "user"]),
   MkUserBody([is_active |-> FALSE]),
   MkUserBody([rol |-> "admin", is_active |-> FALSE])}

\* bodies of POST users/ and POST register/: with a rol, or without
AltaBodies == {NoUserBody, MkUserBody([rol |-> "admin"])}

UsuariosHandle(w) ==
  \/ \E body \in AltaBodies : UserRegister(w, body)
  \/ \E actor \in UserIds, body \in AltaBodies : UserCreate(w, actor, body)
  \/ \E actor \in UserIds, pk \in UserIds, body \in UserUpdateBodies :
        UserUpdate(w, actor, pk, body)
  \/ \E actor \in UserIds, body \in UserUpdateBodies : UserProfilePut(w, actor, body)
  \/ \E actor \in UserIds, pk \in UserIds, body \in DeleteBodies :
        UserDestroy(w, actor, pk, body)
  \/ \E actor \in UserIds, body \in DeleteBodies : UserProfileDelete(w, actor, body)
  \/ \E actor \in UserIds, pk \in UserIds : toggle_user_status(w, actor, pk)

UsuariosBegin(w) ==
  /\ UBegin(w, MaxSeqRequests)
  /\ UsuariosHandle(w)
  /\ UNCHANGED <<contactos, telefonos, emails, direcciones, tipos_relacion, next_id,
                 req, historial>>

UStep(w) ==
  \/ /\ \/ ExecCreateUser(w)
        \/ ExecGetObject(w)
        \/ ExecSaveUser(w)
        \/ ExecCountAdmins(w)
        \/ ExecCountActiveAdmins(w)
        \/ URespond(w)
     /\ UNCHANGED <<contactos, telefonos, emails, direcciones>>
  \/ ExecDeleteUser(w)

UsuariosRun(w) ==
  /\ UStep(w)
  /\ UNCHANGED <<tipos_relacion, next_id, req, started, historial>>

\* one request at a time
USolo(w) == \A v \in Workers \ {w} : UIsIdle(v)

UsuariosSeqNext == \E w \in Workers : USolo(w) /\ (UsuariosBegin(w) \/ UsuariosRun(w))

\* user 1 is an admin and the other users are all plain users or all
\* moderators, with room for one more row; users 1 and 2 own one contact each
UsuariosSeqInit ==
  /\ contactos = [i \in {1, 2} |-> NuevoContacto(SeedOwner[i], ValidatedData(SeedBody))]
  /\ telefonos = SeedHijos(<<Tel1>>)
  /\ emails = SeedHijos(<<Em1>>)
  /\ direcciones = SeedHijos(<<Dir1>>)
  /\ next_id = 3
  /\ tipos_relacion = TipoRelacionRows
  /\ req = [w \in Workers |-> Idle]
  /\ started = 0
  /\ historial = <<>>
  /\ \E rol \in Roles \ {"admin"} :
       custom_users = [i \in 1..(MaxUsuarios - 1) |->
                         NuevoUsuario(IF i = 1 THEN "admin" ELSE rol)]
  /\ next_user_id = MaxUsuarios
  /\ ureq = [w \in Workers |-> UIdle]

\* the requests of the users API, handled one at a time
UsuariosSeqSpec == UsuariosSeqInit /\ [][UsuariosSeqNext]_vars

\* ===================================================================== claims
ReadOps == {"list", "todos", "favoritos", "buscar", "por_tipo", "retrieve", "estadisticas"}

WriteOps == {"update", "destroy", "toggle"}

\* the worker that takes the step, and the request it is handling
Moved(w) == req'[w] # req[w]
Actor(w) == IF IsIdle(w) THEN req'[w] ELSE req[w]

\* C1: every read (list, todos, favoritos, buscar, por-tipo, retrieve,
\* estadisticas) answers with rows of the requesting user only
C1_ReadIsolation ==
  \A w \in Workers :
     (req[w].op \in ReadOps /\ IsDone(w)) =>
        \A r \in req[w].result : r[2] = req[w].user

\* u2 got a non-empty answer to a read while u1 has a contact stored
C1_Witness ==
  \E w \in Workers :
     /\ req[w].op \in ReadOps
     /\ req[w].user = "u2"
     /\ req[w].status = 200
     /\ req[w].result # {}
     /\ \E id \in DOMAIN contactos : contactos[id].usuario = "u1"

\* C2: no step of an update, delete or toggle request of user U changes a
\* contact of another user or its telefonos, emails and direcciones,
\* whatever the other workers are doing
C2_MutationIsolation ==
  [][\A w \in Workers :
        (Moved(w) /\ Actor(w).op \in WriteOps) =>
           \A id \in DOMAIN contactos :
              contactos[id].usuario # Actor(w).user =>
                 /\ id \in DOMAIN contactos'
                 /\ contactos'[id] = contactos[id]
                 /\ telefonos'[id] = telefonos[id]
                 /\ emails'[id] = emails[id]
                 /\ direcciones'[id] = direcciones[id]]_vars

\* a write of u1 succeeded while a request of u2 was running and u2 has a
\* contact stored
C2_Witness ==
  \E w, v \in Workers :
     /\ w # v
     /\ req[w].op \in WriteOps
     /\ req[w].user = "u1"
     /\ req[w].status \in {200, 204}
     /\ IsRunning(v)
     /\ req[v].user = "u2"
     /\ \E id \in DOMAIN contactos : contactos[id].usuario = "u2"

\* C3: an update or delete of a contact that exists but belongs to another
\* user is answered 403, and 404 is answered only when no contact has the id
C3_ForbiddenNotNotFound ==
  \A w \in Workers :
     (req[w].op \in {"update", "destroy"} /\ IsDone(w)) =>
        /\ (req[w].pk \in DOMAIN contactos /\ contactos[req[w].pk].usuario # req[w].user)
              => req[w].status = 403
        /\ req[w].status = 404 => req[w].pk \notin DOMAIN contactos

\* C4: no two contacts of one owner have the same nombre, apellido_pat and
\* apellido_mat
C4_UniqueNombre ==
  \A a, b \in DOMAIN contactos :
     (a # b /\ contactos[a].usuario = contactos[b].usuario) =>
        ~ /\ contactos[a].nombre = contactos[b].nombre
          /\ contactos[a].apellido_pat = contactos[b].apellido_pat
          /\ contactos[a].apellido_mat = contactos[b].apellido_mat

\* an owner has two contacts and an update that renames one of them to the
\* name of the other was refused by the database
C4_Witness ==
  \E w \in Workers :
     /\ req[w].op = "update"
     /\ req[w].status = 500
     /\ Has(req[w].body, "nombre")
     /\ \E a, b \in DOMAIN contactos :
           /\ a # b
           /\ a = req[w].pk
           /\ contactos[a].usuario = contactos[b].usuario
           /\ contactos[b].nombre = Val(req[w].body, "nombre")

\* the row a create request asks for
Asked(r) == NuevoContacto(r.user, ValidatedData(r.body))

\* C5: a create whose owner and names equal those of a stored contact is
\* answered 400 and stores no row
C5_DuplicateIs400 ==
  \A w \in Workers :
     (/\ req[w].op = "create"
      /\ IsDone(w)
      /\ \E id \in DOMAIN contactos \ {req[w].pk} :
            /\ contactos[id].usuario = Asked(req[w]).usuario
            /\ contactos[id].nombre = Asked(req[w]).nombre
            /\ contactos[id].apellido_pat = Asked(req[w]).apellido_pat
            /\ contactos[id].apellido_mat = Asked(req[w]).apellido_mat)
       => (req[w].status = 400 /\ req[w].pk = 0)

\* C6: no step of an update whose body omits telefonos (emails,
\* direcciones) changes the contact's children of that kind
C6_OmittedKept ==
  [][\A w \in Workers :
        (Moved(w) /\ Actor(w).op = "update") =>
           \A kind \in Kinds :
              ~Has(Actor(w).body, kind) =>
                 hijos'[kind][Actor(w).pk] = hijos[kind][Actor(w).pk]]_vars

\* an update that omitted all three lists succeeded on a contact that has
\* children of every kind
C6_Witness ==
  \E w \in Workers :
     /\ req[w].op = "update"
     /\ req[w].status = 200
     /\ \A kind \in Kinds :
           ~Has(req[w].body, kind) /\ Len(hijos[kind][req[w].pk]) > 0

\* C7: after a successful update whose body has an empty list for a kind the
\* contact has no children of that kind
C7_EmptyDeletes ==
  \A w \in Workers :
     (req[w].op = "update" /\ req[w].status = 200) =>
        \A kind \in Kinds :
           (Has(req[w].body, kind) /\ Val(req[w].body, kind) = <<>>) =>
              Len(hijos[kind][req[w].pk]) = 0

\* C8: the step that completes an update leaves, for every kind supplied
\* non-empty, exactly the supplied children, and for every kind not supplied
\* the children the contact had when the update loaded it
C8_ReplaceExact ==
  [][\A w \in Workers :
        (IsRunning(w) /\ req[w].op = "update" /\ req'[w].status = 200) =>
           \A kind \in Kinds :
              /\ (Has(req[w].body, kind) /\ Len(Val(req[w].body, kind)) > 0) =>
                    hijos'[kind][req[w].pk] = Val(req[w].body, kind)
              /\ ~Has(req[w].body, kind) =>
                    hijos'[kind][req[w].pk] = req[w].prefetch[kind]]_vars

\* an update that supplied emails and direcciones and no telefonos succeeded:
\* the new emails and direcciones are stored beside the old telefonos
C8_Witness ==
  \E w \in Workers :
     /\ req[w].op = "update"
     /\ req[w].status = 200
     /\ ~Has(req[w].body, "telefonos")
     /\ Has(req[w].body, "emails")
     /\ emails[req[w].pk] = <<Em2>>
     /\ direcciones[req[w].pk] = <<Dir2, Dir2>>
     /\ telefonos[req[w].pk] = <<Tel1>>

\* C9: whenever an update ends (with a response, or because the process
\* stops), the children of every kind it supplied non-empty are the old set
\* or the full new set
C9_ReplaceAllOrNothing ==
  [][\A w \in Workers :
        (IsRunning(w) /\ req[w].op = "update" /\ ~IsRunning(w)') =>
           \A kind \in Kinds :
              (Has(req[w].body, kind) /\ Len(Val(req[w].body, kind)) > 0) =>
                 \/ hijos'[kind][req[w].pk] = req[w].prefetch[kind]
                 \/ hijos'[kind][req[w].pk] = Val(req[w].body, kind)]_vars

\* C10: a create that is not answered 201 leaves no contact row of its own
C10_CreateAllOrNothing ==
  \A w \in Workers :
     (req[w].op = "create" /\ IsDone(w) /\ req[w].status # 201) =>
        req[w].pk \notin DOMAIN contactos

\* C11: a retrieve of a contact that runs while an update of the same contact
\* is between two of its statements reads, for every kind the update supplied
\* non-empty, the children the update loaded or the full supplied list
C11_ReaderSeesOldOrNew ==
  [][\A v, w \in Workers :
        (/\ IsIdle(v)
         /\ req'[v].op = "retrieve"
         /\ req'[v].status = 200
         /\ IsRunning(w)
         /\ req[w].op = "update"
         /\ req[w].pk = req'[v].pk) =>
           \A kind \in Kinds :
              (Has(req[w].body, kind) /\ Len(Val(req[w].body, kind)) > 0) =>
                 \/ hijos[kind][req[w].pk] = req[w].prefetch[kind]
                 \/ hijos[kind][req[w].pk] = Val(req[w].body, kind)]_vars

\* C12: every child row belongs to a contact that exists, and the statement
\* that deletes a contact removes the row and all its telefonos, emails and
\* direcciones and leaves the children of every other contact as they were
C12_Cascade ==
  /\ [](\A kind \in Kinds : \A cid \in ContactoIds :
          cid \notin DOMAIN contactos => hijos[kind][cid] = <<>>)
  /\ [][\A w \in Workers :
          (IsRunning(w) /\ req[w].op = "destroy" /\ req'[w].status = 204) =>
             /\ req[w].pk \notin DOMAIN contactos'
             /\ \A kind \in Kinds : \A cid \in ContactoIds :
                   hijos'[kind][cid] = IF cid = req[w].pk THEN <<>> ELSE hijos[kind][cid]]_vars

\* a contact that had children was deleted while another contact keeps its
\* children
C12_Witness ==
  \E w \in Workers :
     /\ req[w].op = "destroy"
     /\ req[w].status = 204
     /\ req[w].pk \notin DOMAIN contactos
     /\ \E id \in DOMAIN contactos :
           Len(telefonos[id]) > 0 /\ Len(emails[id]) > 0 /\ Len(direcciones[id]) > 0

\* C14: no contact has two telefonos with the same numero or two emails with
\* the same email
C14_UniqueHijos ==
  \A kind \in {"telefonos", "emails"} : \A cid \in ContactoIds :
     \A i, j \in 1..Len(hijos[kind][cid]) :
        i # j => hijos[kind][cid][i].valor # hijos[kind][cid][j].valor

\* a request that supplied the same numero twice was stopped by the database
\* at the second row, the first one being stored
C14_Witness ==
  \E w \in Workers :
     /\ req[w].op \in {"create", "update"}
     /\ req[w].status = 500
     /\ Has(req[w].body, "telefonos")
     /\ Len(Val(req[w].body, "telefonos")) = 2
     /\ req[w].pk \in DOMAIN contactos
     /\ telefonos[req[w].pk] = <<Val(req[w].body, "telefonos")[1]>>

\* C16: a toggle-favorito of an id that is not a contact of the requesting
\* user is answered 404, and no step of such a request changes the favorito
\* of any contact
C16_ToggleNotFound ==
  [][\A w \in Workers :
        (Moved(w) /\ Actor(w).op = "toggle") =>
           /\ (/\ IsIdle(w)
               /\ ~ /\ Actor(w).pk \in DOMAIN contactos
                     /\ contactos[Actor(w).pk].usuario = Actor(w).user)
                 => req'[w].status = 404
           /\ (req[w].status = 404 \/ req'[w].status = 404) =>
                 \A id \in DOMAIN contactos :
                    /\ id \in DOMAIN contactos'
                    /\ contactos'[id].favorito = contactos[id].favorito]_vars

\* u1 asked to toggle a contact that u2 owns and was answered 404
C16_Witness ==
  \E w \in Workers :
     /\ req[w].op = "toggle"
     /\ req[w].user = "u1"
     /\ req[w].status = 404
     /\ req[w].pk \in DOMAIN contactos
     /\ contactos[req[w].pk].usuario = "u2"

\* C13: the deletion of a TipoRelacion that a contact references is refused
\* with ProtectedError (409) and changes neither the types nor the contacts;
\* the deletion of one that no contact references removes it; and every
\* contact's tipo_relacion is a row of the catalog
C13_ProtectedDelete ==
  /\ [](\A id \in DOMAIN contactos :
          contactos[id].tipo_relacion \in DOMAIN tipos_relacion)
  /\ [][\A w \in Workers :
          (/\ IsIdle(w)
           /\ req'[w].op = "delete_tipo"
           /\ req'[w].pk \in DOMAIN tipos_relacion) =>
             IF \E id \in DOMAIN contactos : contactos[id].tipo_relacion = req'[w].pk
               THEN /\ req'[w].status = 409
                    /\ tipos_relacion' = tipos_relacion
                    /\ contactos' = contactos
               ELSE IsRunning(w)']_vars
  /\ [][\A w \in Workers :
          (IsRunning(w) /\ req[w].op = "delete_tipo" /\ IsDone(w)') =>
             /\ req'[w].status = 204
             /\ req[w].pk \notin DOMAIN tipos_relacion'
             /\ contactos' = contactos]_vars

\* the type that no contact references was deleted, and the deletion of the
\* type that a contact references was refused
C13_Witness ==
  \E w \in Workers :
     /\ req[w].op = "delete_tipo"
     /\ req[w].status = 409
     /\ DOMAIN tipos_relacion = {req[w].pk}
     /\ \E id \in DOMAIN contactos : contactos[id].tipo_relacion = req[w].pk

\* C15: every toggle stores the negation of the favorito it found; of two
\* toggles of one contact that ran one after the other, the second stores
\* the favorito the first one found; and the contact holds what the last
\* toggle stored
C15_ToggleInvolution ==
  /\ \A k \in 1..Len(historial) : historial[k].despues = ~historial[k].antes
  /\ \A j, k \in 1..Len(historial) :
        (/\ j < k
         /\ historial[j].pk = historial[k].pk
         /\ \A i \in (j + 1)..(k - 1) : historial[i].pk # historial[j].pk)
          => historial[k].despues = historial[j].antes
  /\ \A k \in 1..Len(historial) :
        (\A i \in (k + 1)..Len(historial) : historial[i].pk # historial[k].pk)
          => contactos[historial[k].pk].favorito = historial[k].despues

\* three toggles of one contact were answered 200: the second restored the
\* favorito FALSE and the third the favorito TRUE
C15_Witness ==
  /\ Len(historial) = 3
  /\ \A k \in 1..3 : historial[k].pk = historial[1].pk
  /\ historial[1].antes = FALSE
  /\ historial[2].despues = FALSE
  /\ contactos[historial[1].pk].favorito = TRUE
  /\ \E w \in Workers : req[w].op = "toggle" /\ req[w].status = 200

\* C17: in the response of a search with a term, every contact of the user
\* whose telefonos or emails contain the term, and that passes the other
\* filters, is in exactly one row, and count is the number of contacts in
\* the results
C17_SearchDedup ==
  \A w \in Workers :
     (req[w].op = "buscar" /\ req[w].status = 200) =>
        /\ \A id \in DOMAIN contactos :
              (/\ contactos[id].usuario = req[w].user
               /\ Has(req[w].params, "q")
               /\ Val(req[w].params, "q") # Empty
               /\ OtrosFiltros(id, req[w].params)
               /\ \/ \E i \in 1..Len(telefonos[id]) :
                        IContains(telefonos[id][i].valor, Val(req[w].params, "q"))
                  \/ \E i \in 1..Len(emails[id]) :
                        IContains(emails[id][i].valor, Val(req[w].params, "q")))
                => Cardinality({r \in req[w].result : r[1] = id}) = 1
        /\ req[w].count = Cardinality({r[1] : r \in req[w].result})

\* a search for "555" answered with contact 1, whose two telefonos both
\* contain "555" and which has two emails: four rows of the join match
C17_Witness ==
  \E w \in Workers :
     /\ req[w].op = "buscar"
     /\ req[w].status = 200
     /\ Has(req[w].params, "q")
     /\ Val(req[w].params, "q") = <<"5", "5", "5">>
     /\ telefonos[1] = <<Tel1, Tel2>>
     /\ emails[1] = <<Em1, Em2>>
     /\ \E r \in req[w].result : r[1] = 1
     /\ req[w].count >= 1

\* C18: the contacts in the response of a search are exactly the contacts of
\* the user that satisfy every supplied filter: the term is contained
\* (ignoring case) in nombre, a surname, empresa, cargo, notas, some numero
\* or some email; tipo is the contact's type; favorito and activo equal the
\* supplied boolean; empresa is contained in the contact's empresa
C18_SearchFilters ==
  \A w \in Workers :
     (req[w].op = "buscar" /\ req[w].status = 200) =>
        LET p == req[w].params
            Bool(v) == LowerText(v) = <<"t", "r", "u", "e">>
            Term(id, q) ==
              \/ \E f \in {"nombre", "apellido_pat", "apellido_mat", "empresa",
                            "cargo", "notas"} : IContains(contactos[id][f], q)
              \/ \E i \in 1..Len(telefonos[id]) : IContains(telefonos[id][i].valor, q)
              \/ \E i \in 1..Len(emails[id]) : IContains(emails[id][i].valor, q)
        IN {r[1] : r \in req[w].result} =
             {id \in DOMAIN contactos :
                /\ contactos[id].usuario = req[w].user
                /\ Has(p, "q") => Term(id, Val(p, "q"))
                /\ Has(p, "tipo") =>
                      \/ Val(p, "tipo") = <<"1">> /\ contactos[id].tipo_relacion = 1
                      \/ Val(p, "tipo") = <<"2">> /\ contactos[id].tipo_relacion = 2
                /\ Has(p, "favorito") => contactos[id].favorito = Bool(Val(p, "favorito"))
                /\ Has(p, "empresa") => IContains(contactos[id].empresa, Val(p, "empresa"))
                /\ Has(p, "activo") => contactos[id].activo = Bool(Val(p, "activo"))}

\* a search with all five filters supplied found contact 1 by its name, the
\* contact having no telefono and another contact of the user failing the
\* filters
C18_Witness ==
  \E w \in Workers :
     /\ req[w].op = "buscar"
     /\ req[w].status = 200
     /\ req[w].user = "u1"
     /\ \A f \in BuscarFields : Has(req[w].params, f)
     /\ Val(req[w].params, "q") = <<"A", "N">>
     /\ telefonos[1] = <<>>
     /\ contactos[2].usuario = "u1"
     /\ {r[1] : r \in req[w].result} = {1}

\* C19: the response of por-tipo has exactly one entry for each active type
\* and none for an inactive one; the count of an entry is the number of
\* contacts of the user with that type and the size of its list of contacts
\* (0 and empty for an active type the user has no contact of)
C19_GroupByType ==
  \A w \in Workers :
     (req[w].op = "por_tipo" /\ req[w].status = 200) =>
        /\ {g[1] : g \in req[w].grupos} =
              {t \in DOMAIN tipos_relacion : tipos_relacion[t].activo}
        /\ \A g, h \in req[w].grupos : g[1] = h[1] => g = h
        /\ \A g \in req[w].grupos :
              /\ g[2] = Cardinality({id \in DOMAIN contactos :
                                       /\ contactos[id].usuario = req[w].user
                                       /\ contactos[id].tipo_relacion = g[1]})
              /\ g[2] = Cardinality(g[3])

\* a response with an entry of count 0 and an empty list for an active type,
\* the user having a contact of an inactive type
C19_Witness ==
  \E w \in Workers :
     /\ req[w].op = "por_tipo"
     /\ req[w].status = 200
     /\ \E g \in req[w].grupos : g[2] = 0 /\ g[3] = {}
     /\ \E id \in DOMAIN contactos :
           /\ contactos[id].usuario = req[w].user
           /\ ~tipos_relacion[contactos[id].tipo_relacion].activo

\* C20: in every estadisticas response contactos_favoritos <= total_contactos,
\* contactos_activos + contactos_inactivos = total_contactos, and con_telefono,
\* con_email and con_direccion are <= total_contactos
C20_StatsConsistent ==
  \A w \in Workers :
     (req[w].op = "estadisticas" /\ req[w].status = 200) =>
        \E total, favoritos, activos, inactivos \in 0..MaxContactos :
           /\ <<"total_contactos", total>> \in req[w].conteos
           /\ <<"contactos_favoritos", favoritos>> \in req[w].conteos
           /\ <<"contactos_activos", activos>> \in req[w].conteos
           /\ <<"contactos_inactivos", inactivos>> \in req[w].conteos
           /\ favoritos <= total
           /\ activos + inactivos = total
           /\ \A c \in req[w].conteos :
                 c[1] \in {"con_telefono", "con_email", "con_direccion"} => c[2] <= total

\* the sum of the counts of a breakdown
RECURSIVE SumaGrupos(_)
SumaGrupos(G) ==
  IF G = {} THEN 0
  ELSE LET g == CHOOSE x \in G : TRUE IN g[2] + SumaGrupos(G \ {g})

\* C21: por_tipo_relacion of an estadisticas response has an entry for
\* exactly the types, active or not, that the user has a contact of, each
\* with the number of those contacts, none with count 0, and the counts sum
\* to total_contactos
C21_StatsBreakdown ==
  \A w \in Workers :
     (req[w].op = "estadisticas" /\ req[w].status = 200) =>
        /\ {g[1] : g \in req[w].grupos} =
              {t \in DOMAIN tipos_relacion :
                 \E id \in DOMAIN contactos :
                    /\ contactos[id].usuario = req[w].user
                    /\ contactos[id].tipo_relacion = t}
        /\ \A g, h \in req[w].grupos : g[1] = h[1] => g = h
        /\ \A g \in req[w].grupos :
              /\ g[2] > 0
              /\ g[2] = Cardinality({id \in DOMAIN contactos :
                                       /\ contactos[id].usuario = req[w].user
                                       /\ contactos[id].tipo_relacion = g[1]})
        /\ <<"total_contactos", SumaGrupos(req[w].grupos)>> \in req[w].conteos

\* a response whose breakdown has an inactive type and leaves out a type the
\* user has no contact of
C21_Witness ==
  \E w \in Workers :
     /\ req[w].op = "estadisticas"
     /\ req[w].status = 200
     /\ \E g \in req[w].grupos : ~tipos_relacion[g[1]].activo
     /\ \E t \in DOMAIN tipos_relacion : \A g \in req[w].grupos : g[1] # t

\* the field of the list serializer that holds the principal of a kind
PrincipalField ==
  [telefonos |-> "telefono_principal", emails |-> "email_principal",
   direcciones |-> "direccion_principal"]

\* C22: in a list response the principal field of each kind is None when no
\* child of the contact is flagged principal, and otherwise the value of the
\* flagged child that was stored first; a create request whose children are
\* flagged several times is not refused and stores the children as sent
C22_PrincipalSelection ==
  \A w \in Workers :
     /\ (req[w].op = "list" /\ req[w].status = 200) =>
           \A r \in req[w].result : \A kind \in Kinds :
              LET rows == hijos[kind][r[1]]
                  p == r[3][PrincipalField[kind]]
              IN IF \A i \in 1..Len(rows) : ~rows[i].principal
                   THEN p = None
                   ELSE \E i \in 1..Len(rows) :
                           /\ rows[i].principal
                           /\ \A j \in 1..(i - 1) : ~rows[j].principal
                           /\ p = <<rows[i].valor>>
     /\ (req[w].op = "create" /\ IsDone(w)) =>
           /\ req[w].status # 400
           /\ req[w].status = 201 =>
                 \A kind \in Kinds :
                    hijos[kind][req[w].pk] = Pop(req[w].body, kind, <<>>)

\* a list response for a contact with two emails flagged principal, a
\* telefono flagged after one that is not, and direcciones none of which is
\* flagged
C22_Witness ==
  \E w \in Workers :
     /\ req[w].op = "list"
     /\ req[w].status = 200
     /\ \E r \in req[w].result :
           /\ Len(FilterPrincipal(emails[r[1]])) = 2
           /\ Len(telefonos[r[1]]) = 2
           /\ ~telefonos[r[1]][1].principal
           /\ telefonos[r[1]][2].principal
           /\ Len(direcciones[r[1]]) > 0
           /\ r[3].direccion_principal = None

\* the text of a part followed by the next parts, with one space between
\* them when both are not empty
Unidos(a, b) ==
  IF a = Empty THEN b ELSE IF b = Empty THEN a ELSE a \o <<" ">> \o b

\* C23: nombre_completo of a listed contact is its nombre, apellido_pat and
\* apellido_mat, in that order, the empty ones left out, with one space
\* between two parts, and it neither begins nor ends with a space
C23_FullName ==
  \A w \in Workers :
     (req[w].op = "list" /\ req[w].status = 200) =>
        \A r \in req[w].result :
           LET c == contactos[r[1]]
               n == r[3].nombre_completo
           IN /\ n = Unidos(c.nombre, Unidos(c.apellido_pat, c.apellido_mat))
              /\ Len(n) > 0 => n[1] # " " /\ n[Len(n)] # " "

\* a listed contact with an empty apellido_pat between a nombre and an
\* apellido_mat that are not empty
C23_Witness ==
  \E w \in Workers :
     /\ req[w].op = "list"
     /\ req[w].status = 200
     /\ \E r \in req[w].result :
           /\ contactos[r[1]].nombre = Ana
           /\ contactos[r[1]].apellido_pat = Empty
           /\ contactos[r[1]].apellido_mat = Ruiz
           /\ r[3].nombre_completo = <<"A", "n", "a", " ", "R", "u", "i", "z">>

\* an optional "+" followed by 9 to 15 digits
NueveAQuince(s) ==
  LET d == IF Len(s) > 0 /\ s[1] = "+" THEN Tail(s) ELSE s
  IN AllDigits(d) /\ Len(d) >= 9 /\ Len(d) <= 15

\* C24: a create request with one telefono passes validation exactly when
\* the number is an optional "+" followed by 9 to 15 digits; a number with
\* fewer than 9 or more than 15 digits is refused with 400
C24_NumeroValidation ==
  \A w \in Workers :
     (req[w].op = "create" /\ IsDone(w)) =>
        (req[w].status # 400 <=> NueveAQuince(Val(req[w].body, "telefonos")[1].valor))

\* C25: a contact is stored with the user of the create request as its owner,
\* whatever usuario the body names, and no step of any request changes the
\* owner of a stored contact
C25_OwnerImmutable ==
  [][\A id \in DOMAIN contactos' :
        IF id \in DOMAIN contactos
          THEN contactos'[id].usuario = contactos[id].usuario
          ELSE \E w \in Workers :
                  /\ Moved(w)
                  /\ req[w].op = "create"
                  /\ contactos'[id].usuario = req[w].user]_vars

\* an update of u1 whose body names u2 as usuario succeeded on a contact
\* that was created by u1 with a body naming u2, and u1 still owns it
C25_Witness ==
  \E w \in Workers :
     /\ req[w].op = "update"
     /\ req[w].status = 200
     /\ req[w].user = "u1"
     /\ Has(req[w].body, "usuario")
     /\ Val(req[w].body, "usuario") = "u2"
     /\ Val(SeedBody, "usuario") = "u2"
     /\ req[w].pk = 1
     /\ contactos[1] = [NuevoContacto("u1", ValidatedData(SeedBody)) EXCEPT !.favorito = TRUE]

\* the saves of toggle-favorito that were answered 200 for contact pk
Toggles(pk) == {k \in 1..Len(historial) : historial[k].pk = pk}

\* C28: once every toggle of a contact has been answered, the contact holds
\* the favorito that the first toggle found, negated once for each toggle
\* that was answered 200
C28_NoLostToggle ==
  \A pk \in DOMAIN contactos :
     (/\ Toggles(pk) # {}
      /\ \A w \in Workers : ~(IsRunning(w) /\ req[w].op = "toggle" /\ req[w].pk = pk))
       => LET first == historial[CHOOSE k \in Toggles(pk) : \A j \in Toggles(pk) : k <= j]
          IN contactos[pk].favorito =
               (IF Cardinality(Toggles(pk)) % 2 = 0 THEN first.antes ELSE ~first.antes)

\* C29: a contact that was deleted stays deleted: no step of any request
\* stores a row under a key that was given out before and holds no row
C29_DeletedStaysDeleted ==
  [][\A id \in 1..(next_id - 1) :
        id \notin DOMAIN contactos => id \notin DOMAIN contactos']_vars

\* C26: deleting users never removes the last administrator: in every state
\* reached by DELETE users/{id}/ and DELETE profile/ requests, handled in any
\* interleaving, a user of role admin exists, and a delete that is answered
\* 400 deletes nothing.
HayAdmin == \E id \in DOMAIN custom_users : is_admin(custom_users[id])

C26_LastAdminKept ==
  /\ []HayAdmin
  /\ [][\A w \in Workers :
          (ureq'[w].status = 400 /\ ureq[w].status = 0) => custom_users' = custom_users]_vars

\* C30: no operation on users leaves the system without an active
\* administrator: in every state reached by register, create, update, delete
\* and toggle-status requests there is a user with rol admin and
\* is_active true.
C30_ActiveAdminKept ==
  \E id \in DOMAIN custom_users : is_admin(custom_users[id]) /\ custom_users[id].is_active

\* C27: no privilege escalation: a request whose sender is not an admin
\* changes the rol of no user; the row made by a public registration has rol
\* user; and an update by a non-admin that carries a rol still saves the
\* other field it carries (is_active).
NoAdmin(w) == UIsRunning(w) /\ ~is_admin(ureq[w].user) /\ ureq'[w] # ureq[w]

C27_NoEscalation ==
  [][\A w \in Workers : NoAdmin(w) =>
       /\ \A id \in DOMAIN custom_users \cap DOMAIN custom_users' :
             custom_users'[id].rol = custom_users[id].rol
       /\ \A id \in DOMAIN custom_users' \ DOMAIN custom_users :
             custom_users'[id].rol = "user"
       /\ (/\ ureq[w].op \in {"update", "profile_put"}
           /\ UHead(w) = "save"
           /\ Has(ureq[w].body, "is_active"))
          => /\ ureq[w].pk \in DOMAIN custom_users'
             /\ custom_users'[ureq[w].pk].is_active = Val(ureq[w].body, "is_active")]_vars

\* a user who is not an admin has sent rol admin and is_active false in an
\* update that was answered 200, and their row holds the old rol and
\* is_active false
C27_Witness ==
  \E w \in Workers :
     /\ ureq[w].op \in {"update", "profile_put"}
     /\ ureq[w].status = 200
     /\ ~is_admin(ureq[w].user)
     /\ Has(ureq[w].body, "rol") /\ Val(ureq[w].body, "rol") = "admin"
     /\ Has(ureq[w].body, "is_active")
     /\ ureq[w].pk \in DOMAIN custom_users
     /\ custom_users[ureq[w].pk] = [rol |-> ureq[w].user.rol, is_active |-> FALSE]

====
